---- MODULE Spec2Model ----
(***************************************************************************)
(* Model of the emerald LLVM backend: the MIR-to-LLVM translator           *)
(* (src/backend/llvm/codegen.rs, instructions.rs, types.rs), the native    *)
(* module ownership protocol between LlvmCodeGen and Module                *)
(* (codegen.rs, ports/codegen.rs, context.rs), and the optimizer and       *)
(* emitter entry points (optimizer.rs, emitter.rs).                        *)
(*                                                                         *)
(* Native handles are natural numbers, 0 being the null pointer.  Rust     *)
(* Option values are sequences of length 0 (None) or 1 (Some).  HashMaps   *)
(* are functions with a finite domain.  MIR block indices are 0-based as   *)
(* in the source; TLA+ sequences are 1-based.                              *)
(***************************************************************************)
EXTENDS Integers, Sequences, FiniteSets, TLC

VARIABLES
    init,    \* LLVM_INIT and the threads constructing LlvmContext values
    tf,      \* the translate_function frame of the function being translated
    gens,    \* the LlvmCodeGen values:  field values and liveness
    mods,    \* the Module values: name, data and liveness
    native,  \* the native toolkit's view of every handle ever created
    last,    \* the most recent call: its arguments, its result, the native calls it
             \* made and the files it wrote
    ncalls,  \* the number of generate_from_mir calls made on each LlvmCodeGen
    proc     \* "running", or "aborted" once undefined behaviour crashed it

vars == <<init, tf, gens, mods, native, last, ncalls, proc>>

(***************************************************************************)
(* Bounds of the model.                                                    *)
(***************************************************************************)
MaxBlocks == 2      \* basic blocks per enumerated MIR function
MaxInsts == 2       \* instructions per enumerated MIR function
MaxMods == 2        \* Module values constructed in one run
MaxCalls == 2       \* generate_from_mir calls on one LlvmCodeGen
MaxThreads == 3     \* threads that construct LlvmContext values
MaxNews == 2        \* LlvmContext::new calls per thread
MaxFunctions == 2   \* functions in the slice given to generate_from_mir

NULL == 0

None == <<>>
Some(x) == <<x>>
IsSome(o) == Len(o) = 1
Unwrap(o) == o[1]

EmptyMap == [k \in {} |-> 0]
\* HashMap::insert
Insert(m, k, v) == [x \in (DOMAIN m) \cup {k} |-> IF x = k THEN v ELSE m[x]]

(***************************************************************************)
(* MIR values (crate::core::mir, crate::core::types), as the backend reads *)
(* them.                                                                   *)
(***************************************************************************)
Primitive(p) == [kind |-> "Primitive", p |-> p]
Pointer(t) == [kind |-> "Pointer", pointee |-> t]
Array(t, n) == [kind |-> "Array", element |-> t, size |-> n]
Struct(n) == [kind |-> "Struct", name |-> n]
Function(r, ps) == [kind |-> "Function", return_type |-> r, params |-> ps]
StringType == [kind |-> "String"]
TraitObject == [kind |-> "TraitObject"]
Generic == [kind |-> "Generic"]

Local(i) == [id |-> i]
OpLocal(i) == [kind |-> "Local", local |-> Local(i)]
OpConstant(c) == [kind |-> "Constant", c |-> c]
OpFunction(n) == [kind |-> "Function", func |-> n]
ConstInt(i) == [k |-> "Int", i |-> i]
ConstFloat(f) == [k |-> "Float", f |-> f]
ConstBool(b) == [k |-> "Bool", b |-> b]
ConstChar(c) == [k |-> "Char", ch |-> c]
ConstString(s) == [k |-> "String", s |-> s, len |-> Len(s)]
ConstNull == [k |-> "Null"]

ArithmeticOps == {"Add", "Sub", "Mul", "Div", "Mod"}
ComparisonOps == {"Eq", "Ne", "Lt", "Le", "Gt", "Ge"}

(***************************************************************************)
(* LLVM types (LLVMTypeRef) and type lowering, types.rs.                   *)
(***************************************************************************)
LLVMVoidType == [t |-> "void"]
LLVMIntType(bits) == [t |-> "int", bits |-> bits]
LLVMDoubleType == [t |-> "double"]
LLVMPointerType(pointee, space) == [t |-> "ptr", pointee |-> pointee, addrspace |-> space]
LLVMArrayType2(element, n) == [t |-> "array", element |-> element, len |-> n]
LLVMStructCreateNamed(n) == [t |-> "struct", name |-> n, opaque |-> TRUE]
LLVMFunctionType(ret, params, variadic) ==
    [t |-> "fn", ret |-> ret, params |-> params, variadic |-> variadic]

\* mutant of primitive_to_llvm_type: Size is lowered like Int
primitive_to_llvm_type_narrow(p) ==
    CASE p = "Void" -> LLVMVoidType
      [] p = "Byte" -> LLVMIntType(8)
      [] p = "Int" -> LLVMIntType(32)
      [] p = "Long" -> LLVMIntType(64)
      [] p = "Size" -> LLVMIntType(32)
      [] p = "Float" -> LLVMDoubleType
      [] p = "Bool" -> LLVMIntType(1)
      [] p = "Char" -> LLVMIntType(32)

primitive_to_llvm_type(p) ==
    CASE p = "Void" -> LLVMVoidType
      [] p = "Byte" -> LLVMIntType(8)
      [] p = "Int" -> LLVMIntType(32)
      [] p = "Long" -> LLVMIntType(64)
      [] p = "Size" -> LLVMIntType(64)
      [] p = "Float" -> LLVMDoubleType
      [] p = "Bool" -> LLVMIntType(1)
      [] p = "Char" -> LLVMIntType(32)

RECURSIVE mir_type_to_llvm_type(_)
mir_type_to_llvm_type(ty) ==
    CASE ty.kind = "Primitive" -> primitive_to_llvm_type(ty.p)
      [] ty.kind = "Pointer" -> LLVMPointerType(mir_type_to_llvm_type(ty.pointee), 0)
      [] ty.kind = "Array" -> LLVMArrayType2(mir_type_to_llvm_type(ty.element), ty.size)
      [] ty.kind = "Struct" -> LLVMStructCreateNamed("struct." \o ty.name)
      [] ty.kind = "Function" ->
            LLVMFunctionType(mir_type_to_llvm_type(ty.return_type),
                             [i \in 1..Len(ty.params) |-> mir_type_to_llvm_type(ty.params[i])],
                             FALSE)
      [] ty.kind = "String" -> LLVMPointerType(LLVMIntType(8), 0)
      [] ty.kind = "TraitObject" -> LLVMPointerType(LLVMIntType(8), 0)
      [] ty.kind = "Generic" -> LLVMPointerType(LLVMIntType(8), 0)

(***************************************************************************)
(* LLVM values (LLVMValueRef) and operand resolution, instructions.rs.     *)
(* The value of an emitted instruction is named by the handle of its       *)
(* block and its position in that block.                                   *)
(***************************************************************************)
PANIC == [v |-> "panic"]
NullValue == [v |-> "nullptr"]
LLVMGetParam(idx) == [v |-> "param", idx |-> idx]
\* the model's integers fit in 32 bits, so only narrower types truncate
LLVMConstInt(ty, n) ==
    [v |-> "const", ty |-> ty, val |-> IF ty.bits < 31 THEN n % (2 ^ ty.bits) ELSE n]
LLVMConstReal(ty, f) == [v |-> "constreal", ty |-> ty, real |-> f]
LLVMConstStringInContext2(s, len) == [v |-> "conststr", str |-> s, len |-> len]
LLVMConstNull(ty) == [v |-> "constnull", ty |-> ty]
InstValue(bb, pos) == [v |-> "inst", bb |-> bb, pos |-> pos]

constant_to_llvm_value(c) ==
    CASE c.k = "Int" -> LLVMConstInt(LLVMIntType(32), c.i)
      [] c.k = "Float" -> LLVMConstReal(LLVMDoubleType, c.f)
      [] c.k = "Bool" -> LLVMConstInt(LLVMIntType(1), IF c.b THEN 1 ELSE 0)
      [] c.k = "Char" -> LLVMConstInt(LLVMIntType(32), c.ch)
      [] c.k = "String" -> LLVMConstStringInContext2(c.s, c.len)
      [] c.k = "Null" -> LLVMConstNull(LLVMPointerType(LLVMIntType(8), 0))

\* .expect("Local not found in map") panics on an unbound id
operand_to_llvm_value(operand, local_map) ==
    CASE operand.kind = "Constant" -> constant_to_llvm_value(operand.c)
      [] operand.kind = "Local" ->
            IF operand.local.id \in DOMAIN local_map
            THEN local_map[operand.local.id]
            ELSE PANIC
      [] operand.kind = "Function" -> NullValue

(***************************************************************************)
(* The translate_function frame.  func is the target function being built  *)
(* in the native module: its name, its signature and its basic blocks in   *)
(* append order.  A basic block handle (LLVMBasicBlockRef) is the position *)
(* of the block in func.blocks.  builder is the block the instruction      *)
(* builder is positioned at the end of (NULL before the first              *)
(* LLVMPositionBuilderAtEnd).                                              *)
(***************************************************************************)
NoFunc == [name |-> "", type |-> LLVMVoidType, blocks |-> <<>>, registered |-> FALSE]
NoMir == [name |-> "", params |-> <<>>, return_type |-> None, basic_blocks |-> <<>>]

\* mir_functions and fn_idx are the slice generate_from_mir iterates over and
\* the position of mir_func in it (empty and 0 for a call followed alone)
IdleFrame ==
    [pc |-> "idle", mir_func |-> NoMir, module |-> NULL, func |-> NoFunc,
     bb_map |-> EmptyMap, local_map |-> EmptyMap, builder |-> NULL,
     bb_idx |-> 0, inst_idx |-> 0, mir_functions |-> <<>>, fn_idx |-> 0]

\* the frame on entry to translate_function(mir_func) with self.module = module
EntryFrame(mir_func, module) ==
    [IdleFrame EXCEPT !.pc = "add_function", !.mir_func = mir_func, !.module = module]

Panicked(f) == [f EXCEPT !.pc = "panic"]

\* mutant of Build: the instruction is put at the head of the builder's block
BuildFirst(f, instr) == [f EXCEPT !.func.blocks[f.builder].insts = <<instr>> \o @]
\* LLVMBuild*: append one instruction at the builder's position
Build(f, instr) == [f EXCEPT !.func.blocks[f.builder].insts = Append(@, instr)]
\* the value of the instruction most recently built at the builder's position
Built(f) == InstValue(f.builder, Len(f.func.blocks[f.builder].insts))
Bind(f, local, value) == [f EXCEPT !.local_map = Insert(@, local.id, value)]

Result(ret, f) == [ret |-> ret, f |-> f]

\* mutant of ArithmeticOpcode: division and remainder are unsigned
ArithmeticOpcodeUnsigned(op) ==
    CASE op = "Add" -> "add" [] op = "Sub" -> "sub" [] op = "Mul" -> "mul"
      [] op = "Div" -> "udiv" [] op = "Mod" -> "urem"

ArithmeticOpcode(op) ==
    CASE op = "Add" -> "add" [] op = "Sub" -> "sub" [] op = "Mul" -> "mul"
      [] op = "Div" -> "sdiv" [] op = "Mod" -> "srem"

translate_arithmetic(f, inst) ==
    IF inst.op \in ArithmeticOps
    THEN LET left_val == operand_to_llvm_value(inst.left, f.local_map)
             right_val == operand_to_llvm_value(inst.right, f.local_map)
             g == Build(f, [opc |-> ArithmeticOpcode(inst.op), l |-> left_val, r |-> right_val])
         IN  IF left_val = PANIC \/ right_val = PANIC
             THEN Result("panic", Panicked(f))
             ELSE Result("Some", Bind(g, inst.dest, Built(g)))
    ELSE Result("None", f)

\* mutant of get_dest_local: only the arithmetic instructions have a destination
get_dest_local_arithmetic(inst) ==
    IF inst.op \in ArithmeticOps THEN Some(inst.dest) ELSE None

get_dest_local(inst) ==
    IF inst.op \in ArithmeticOps \cup ComparisonOps
                   \cup {"And", "Or", "Not", "Load", "Alloca", "Gep", "Phi", "Copy"}
    THEN Some(inst.dest)
    ELSE IF inst.op = "Call" /\ IsSome(inst.dest) THEN Some(Unwrap(inst.dest))
    ELSE None

IntPredicate(op) ==
    CASE op = "Eq" -> "EQ" [] op = "Ne" -> "NE" [] op = "Lt" -> "SLT"
      [] op = "Le" -> "SLE" [] op = "Gt" -> "SGT" [] op = "Ge" -> "SGE"

translate_comparison(f, inst) ==
    IF inst.op \in ComparisonOps
    THEN LET left == operand_to_llvm_value(inst.left, f.local_map)
             right == operand_to_llvm_value(inst.right, f.local_map)
             g == Build(f, [opc |-> "icmp", pred |-> IntPredicate(inst.op),
                            l |-> left, r |-> right])
             dest == get_dest_local(inst)
         IN  IF left = PANIC \/ right = PANIC
             THEN Result("panic", Panicked(f))
             ELSE Result("Some", IF IsSome(dest) THEN Bind(g, Unwrap(dest), Built(g)) ELSE g)
    ELSE Result("None", f)

translate_memory(f, inst) ==
    CASE inst.op = "Load" ->
            LET ptr == operand_to_llvm_value(inst.source, f.local_map)
                ty == mir_type_to_llvm_type(inst.type_)
                g == Build(f, [opc |-> "load", ty |-> ty, ptr |-> ptr])
            IN  IF ptr = PANIC THEN Result("panic", Panicked(f))
                ELSE Result("Some", Bind(g, inst.dest, Built(g)))
      [] inst.op = "Store" ->
            LET ptr == operand_to_llvm_value(inst.dest, f.local_map)
                val == operand_to_llvm_value(inst.source, f.local_map)
            IN  IF ptr = PANIC \/ val = PANIC THEN Result("panic", Panicked(f))
                ELSE Result("None", Build(f, [opc |-> "store", val |-> val, ptr |-> ptr]))
      [] inst.op = "Alloca" ->
            LET ty == mir_type_to_llvm_type(inst.type_)
                g == Build(f, [opc |-> "alloca", ty |-> ty])
            IN  Result("Some", Bind(g, inst.dest, Built(g)))
      [] inst.op = "Gep" ->
            LET base_ptr == operand_to_llvm_value(inst.base, f.local_map)
                idx == operand_to_llvm_value(inst.index, f.local_map)
                ty == mir_type_to_llvm_type(inst.type_)
                g == Build(f, [opc |-> "gep", ty |-> ty, base |-> base_ptr, indices |-> <<idx>>])
            IN  IF base_ptr = PANIC \/ idx = PANIC THEN Result("panic", Panicked(f))
                ELSE Result("Some", Bind(g, inst.dest, Built(g)))
      [] OTHER -> Result("None", f)

\* mutant of translate_control_flow: the successors of Br are exchanged
translate_control_flow_swapped(f, inst) ==
    CASE inst.op = "Ret" ->
            IF IsSome(inst.value)
            THEN LET ret_val == operand_to_llvm_value(Unwrap(inst.value), f.local_map)
                 IN  IF ret_val = PANIC THEN Result("panic", Panicked(f))
                     ELSE Result("true", Build(f, [opc |-> "ret", val |-> ret_val]))
            ELSE Result("true", Build(f, [opc |-> "ret void"]))
      [] inst.op = "Jump" ->
            IF inst.target \in DOMAIN f.bb_map
            THEN Result("true", Build(f, [opc |-> "br", dest |-> f.bb_map[inst.target]]))
            ELSE Result("true", f)
      [] inst.op = "Br" ->
            LET cond == operand_to_llvm_value(inst.condition, f.local_map)
            IN  IF cond = PANIC THEN Result("panic", Panicked(f))
                ELSE IF inst.then_bb \in DOMAIN f.bb_map /\ inst.else_bb \in DOMAIN f.bb_map
                THEN Result("true", Build(f, [opc |-> "condbr", cond |-> cond,
                                              then |-> f.bb_map[inst.else_bb],
                                              else |-> f.bb_map[inst.then_bb]]))
                ELSE Result("true", f)
      [] OTHER -> Result("false", f)

\* returns true for the three terminators, whether or not anything was built
translate_control_flow(f, inst) ==
    CASE inst.op = "Ret" ->
            IF IsSome(inst.value)
            THEN LET ret_val == operand_to_llvm_value(Unwrap(inst.value), f.local_map)
                 IN  IF ret_val = PANIC THEN Result("panic", Panicked(f))
                     ELSE Result("true", Build(f, [opc |-> "ret", val |-> ret_val]))
            ELSE Result("true", Build(f, [opc |-> "ret void"]))
      [] inst.op = "Jump" ->
            IF inst.target \in DOMAIN f.bb_map
            THEN Result("true", Build(f, [opc |-> "br", dest |-> f.bb_map[inst.target]]))
            ELSE Result("true", f)
      [] inst.op = "Br" ->
            LET cond == operand_to_llvm_value(inst.condition, f.local_map)
            IN  IF cond = PANIC THEN Result("panic", Panicked(f))
                ELSE IF inst.then_bb \in DOMAIN f.bb_map /\ inst.else_bb \in DOMAIN f.bb_map
                THEN Result("true", Build(f, [opc |-> "condbr", cond |-> cond,
                                              then |-> f.bb_map[inst.then_bb],
                                              else |-> f.bb_map[inst.else_bb]]))
                ELSE Result("true", f)
      [] OTHER -> Result("false", f)

\* mutant of translate_remaining: the first incoming pair of a Phi is not added
translate_remaining_short(f, inst) ==
    CASE inst.op = "Call" ->
            IF IsSome(inst.dest)
            THEN Bind(f, Unwrap(inst.dest), LLVMConstNull(LLVMVoidType))
            ELSE f
      [] inst.op = "Phi" ->
            LET ty == mir_type_to_llvm_type(inst.type_)
                g == Build(f, [opc |-> "phi", ty |-> ty, incoming |-> <<>>])
                n == Len(inst.incoming)
                values == [i \in 1..n |-> operand_to_llvm_value(inst.incoming[i].val_op, f.local_map)]
                blocks == [i \in 1..n |-> f.bb_map[inst.incoming[i].bb_idx]]
                h == [g EXCEPT !.func.blocks[g.builder].insts[Built(g).pos].incoming =
                                   [i \in 1..(n - 1) |-> [value |-> values[i + 1], block |-> blocks[i + 1]]]]
            IN  IF (\E i \in 1..n : values[i] = PANIC)
                   \/ (\E i \in 1..n : inst.incoming[i].bb_idx \notin DOMAIN f.bb_map)
                THEN Panicked(g)
                ELSE Bind(h, inst.dest, Built(g))
      [] inst.op = "Copy" ->
            LET src_val == operand_to_llvm_value(inst.source, f.local_map)
            IN  IF src_val = PANIC THEN Panicked(f) ELSE Bind(f, inst.dest, src_val)
      [] inst.op \in {"And", "Or"} ->
            LET left_val == operand_to_llvm_value(inst.left, f.local_map)
                right_val == operand_to_llvm_value(inst.right, f.local_map)
                g == Build(f, [opc |-> IF inst.op = "And" THEN "and" ELSE "or",
                               l |-> left_val, r |-> right_val])
            IN  IF left_val = PANIC \/ right_val = PANIC THEN Panicked(f)
                ELSE Bind(g, inst.dest, Built(g))
      [] inst.op = "Not" ->
            LET op_val == operand_to_llvm_value(inst.operand, f.local_map)
                g == Build(f, [opc |-> "not", v |-> op_val])
            IN  IF op_val = PANIC THEN Panicked(f) ELSE Bind(g, inst.dest, Built(g))
      [] OTHER -> f

\* mutant of translate_remaining: a predecessor index absent from bb_map gives
\* a null block instead of a panic
translate_remaining_lenient(f, inst) ==
    IF inst.op = "Phi" /\ (\A i \in 1..Len(inst.incoming) :
                              operand_to_llvm_value(inst.incoming[i].val_op, f.local_map) # PANIC)
    THEN LET g == Build(f, [opc |-> "phi", ty |-> mir_type_to_llvm_type(inst.type_),
                            incoming |-> <<>>])
             n == Len(inst.incoming)
             h == [g EXCEPT !.func.blocks[g.builder].insts[Built(g).pos].incoming =
                       [i \in 1..n |->
                           [value |-> operand_to_llvm_value(inst.incoming[i].val_op, f.local_map),
                            block |-> IF inst.incoming[i].bb_idx \in DOMAIN f.bb_map
                                      THEN f.bb_map[inst.incoming[i].bb_idx] ELSE NULL]]]
         IN  Bind(h, inst.dest, Built(g))
    ELSE translate_remaining_short(f, inst)
\* the match of translate_instruction on the instructions no family took
translate_remaining(f, inst) ==
    CASE inst.op = "Call" ->
            IF IsSome(inst.dest)
            THEN Bind(f, Unwrap(inst.dest), LLVMConstNull(LLVMVoidType))
            ELSE f
      [] inst.op = "Phi" ->
            LET ty == mir_type_to_llvm_type(inst.type_)
                g == Build(f, [opc |-> "phi", ty |-> ty, incoming |-> <<>>])
                n == Len(inst.incoming)
                values == [i \in 1..n |-> operand_to_llvm_value(inst.incoming[i].val_op, f.local_map)]
                blocks == [i \in 1..n |-> f.bb_map[inst.incoming[i].bb_idx]]
                h == [g EXCEPT !.func.blocks[g.builder].insts[Built(g).pos].incoming =
                                   [i \in 1..n |-> [value |-> values[i], block |-> blocks[i]]]]
            IN  IF (\E i \in 1..n : values[i] = PANIC)
                   \/ (\E i \in 1..n : inst.incoming[i].bb_idx \notin DOMAIN f.bb_map)
                THEN Panicked(g)
                ELSE Bind(h, inst.dest, Built(g))
      [] inst.op = "Copy" ->
            LET src_val == operand_to_llvm_value(inst.source, f.local_map)
            IN  IF src_val = PANIC THEN Panicked(f) ELSE Bind(f, inst.dest, src_val)
      [] inst.op \in {"And", "Or"} ->
            LET left_val == operand_to_llvm_value(inst.left, f.local_map)
                right_val == operand_to_llvm_value(inst.right, f.local_map)
                g == Build(f, [opc |-> IF inst.op = "And" THEN "and" ELSE "or",
                               l |-> left_val, r |-> right_val])
            IN  IF left_val = PANIC \/ right_val = PANIC THEN Panicked(f)
                ELSE Bind(g, inst.dest, Built(g))
      [] inst.op = "Not" ->
            LET op_val == operand_to_llvm_value(inst.operand, f.local_map)
                g == Build(f, [opc |-> "not", v |-> op_val])
            IN  IF op_val = PANIC THEN Panicked(f) ELSE Bind(g, inst.dest, Built(g))
      [] OTHER -> f

\* mutant of translate_instruction: an instruction no family reported a value
\* for is offered to the memory family once more
translate_instruction_again(f, inst) ==
    LET a == translate_arithmetic(f, inst)
        c == translate_comparison(a.f, inst)
        m == translate_memory(c.f, inst)
        k == translate_control_flow(m.f, inst)
    IN  IF a.ret # "None" THEN a.f
        ELSE IF c.ret # "None" THEN c.f
        ELSE IF m.ret # "None" THEN m.f
        ELSE IF k.ret # "false" THEN k.f
        ELSE translate_remaining(translate_memory(k.f, inst).f, inst)

\* the frame after translate_instruction(inst): pc = "panic" when it panicked,
\* otherwise it returned Ok(())
translate_instruction(f, inst) ==
    LET a == translate_arithmetic(f, inst)
        c == translate_comparison(a.f, inst)
        m == translate_memory(c.f, inst)
        k == translate_control_flow(m.f, inst)
    IN  IF a.ret # "None" THEN a.f
        ELSE IF c.ret # "None" THEN c.f
        ELSE IF m.ret # "None" THEN m.f
        ELSE IF k.ret # "false" THEN k.f
        ELSE translate_remaining(k.f, inst)

(***************************************************************************)
(* translate_function, codegen.rs, one operator per step of its body.      *)
(***************************************************************************)
NumBlocks(f) == Len(f.mir_func.basic_blocks)

\* mutant of AddFunctionStep: the declared return type is not used
AddFunctionStepVoid(f) ==
    LET mir_func == f.mir_func
        param_types == [i \in 1..Len(mir_func.params) |->
                           mir_type_to_llvm_type(mir_func.params[i].type_)]
        func_type == LLVMFunctionType(LLVMVoidType, param_types, FALSE)
    IN  [f EXCEPT !.func = [name |-> mir_func.name, type |-> func_type,
                            blocks |-> <<>>, registered |-> f.module # NULL],
                  !.bb_map = EmptyMap,
                  !.bb_idx = 0,
                  !.pc = "create_blocks"]

\* lines 151-180: lower the signature and LLVMAddFunction(self.module, name, type)
AddFunctionStep(f) ==
    LET mir_func == f.mir_func
        ret_type == IF IsSome(mir_func.return_type)
                    THEN mir_type_to_llvm_type(Unwrap(mir_func.return_type))
                    ELSE LLVMVoidType
        param_types == [i \in 1..Len(mir_func.params) |->
                           mir_type_to_llvm_type(mir_func.params[i].type_)]
        func_type == LLVMFunctionType(ret_type, param_types, FALSE)
    IN  [f EXCEPT !.func = [name |-> mir_func.name, type |-> func_type,
                            blocks |-> <<>>, registered |-> f.module # NULL],
                  !.bb_map = EmptyMap,
                  !.bb_idx = 0,
                  !.pc = "create_blocks"]

\* mutant of CreateBasicBlockStep: the handle is keyed by the block count
CreateBasicBlockStepByCount(f) ==
    LET idx == f.bb_idx
        bb == Len(f.func.blocks) + 1
    IN  [f EXCEPT !.func.blocks = Append(@, [name |-> "bb" \o ToString(idx), insts |-> <<>>]),
                  !.bb_map = Insert(@, idx + 1, bb),
                  !.bb_idx = idx + 1]

\* lines 184-189, one iteration: append block bb<idx> and key its handle by idx
CreateBasicBlockStep(f) ==
    LET idx == f.bb_idx
        bb == Len(f.func.blocks) + 1
    IN  [f EXCEPT !.func.blocks = Append(@, [name |-> "bb" \o ToString(idx), insts |-> <<>>]),
                  !.bb_map = Insert(@, idx, bb),
                  !.bb_idx = idx + 1]

\* lines 192-198: a new local_map, seeded with the parameters in order
RECURSIVE SeedParameters(_, _, _)
SeedParameters(params, idx, local_map) ==
    IF idx = Len(params) THEN local_map
    ELSE SeedParameters(params, idx + 1,
                        Insert(local_map, params[idx + 1].local.id, LLVMGetParam(idx)))

\* mutant of SetUpParametersStep: the parameters are added to the map at hand
SetUpParametersStepKeeping(f) ==
    [f EXCEPT !.local_map = SeedParameters(f.mir_func.params, 0, f.local_map),
              !.bb_idx = 0,
              !.pc = "blocks"]

SetUpParametersStep(f) ==
    [f EXCEPT !.local_map = SeedParameters(f.mir_func.params, 0, EmptyMap),
              !.bb_idx = 0,
              !.pc = "blocks"]

\* mutant of PositionBuilderStep: every block starts from the parameters only
PositionBuilderStepFreshLocals(f) ==
    [f EXCEPT !.builder = f.bb_map[f.bb_idx], !.inst_idx = 0, !.pc = "insts",
              !.local_map = SeedParameters(f.mir_func.params, 0, EmptyMap)]

\* lines 202-203: position the builder at the end of the block mapped to bb_idx
PositionBuilderStep(f) ==
    [f EXCEPT !.builder = f.bb_map[f.bb_idx], !.inst_idx = 0, !.pc = "insts"]

CurrentInst(f) == f.mir_func.basic_blocks[f.bb_idx + 1].instructions[f.inst_idx + 1]

\* mutant of TranslateInstructionStep: the loop over a block's instructions
\* ends at the first Ret, Jump or Br
TranslateInstructionStepStopping(f) ==
    LET g == translate_instruction(f, CurrentInst(f))
    IN  IF g.pc = "panic" THEN g
        ELSE IF CurrentInst(f).op \in {"Ret", "Jump", "Br"}
        THEN [g EXCEPT !.inst_idx = Len(f.mir_func.basic_blocks[f.bb_idx + 1].instructions)]
        ELSE [g EXCEPT !.inst_idx = f.inst_idx + 1]

\* lines 206-208, one iteration: the ? leaves the function only on Err, which
\* translate_instruction never returns; a panic unwinds out of it
TranslateInstructionStep(f) ==
    LET g == translate_instruction(f, CurrentInst(f))
    IN  IF g.pc = "panic" THEN g ELSE [g EXCEPT !.inst_idx = f.inst_idx + 1]

EndBlockStep(f) == [f EXCEPT !.bb_idx = f.bb_idx + 1, !.pc = "blocks"]

\* line 211: Ok(())
ReturnOkStep(f) == [f EXCEPT !.pc = "done"]

Terminated(f) == f.pc \in {"done", "panic"}

translate_function_step(f) ==
    CASE f.pc = "add_function" -> AddFunctionStep(f)
      [] f.pc = "create_blocks" /\ f.bb_idx < NumBlocks(f) -> CreateBasicBlockStep(f)
      [] f.pc = "create_blocks" /\ f.bb_idx = NumBlocks(f) -> SetUpParametersStep(f)
      [] f.pc = "blocks" /\ f.bb_idx < NumBlocks(f) -> PositionBuilderStep(f)
      [] f.pc = "blocks" /\ f.bb_idx = NumBlocks(f) -> ReturnOkStep(f)
      [] f.pc = "insts" /\ f.inst_idx < Len(f.mir_func.basic_blocks[f.bb_idx + 1].instructions) ->
            TranslateInstructionStep(f)
      [] f.pc = "insts" /\ f.inst_idx = Len(f.mir_func.basic_blocks[f.bb_idx + 1].instructions) ->
            EndBlockStep(f)
      [] OTHER -> f

\* the frames translate_function can end in when it has reached frame f: one
\* frame, as every step is deterministic (the set binds each frame once)
RECURSIVE RunFrames(_)
RunFrames(f) ==
    IF Terminated(f) \/ f.pc = "idle" THEN {f}
    ELSE UNION {RunFrames(g) : g \in {translate_function_step(f)}}

\* the frame translate_function(mir_func) ends in, run to completion
RunFrame(f) == CHOOSE g \in RunFrames(f) : TRUE

translate_function(mir_func, module) == RunFrame(EntryFrame(mir_func, module))

(***************************************************************************)
(* The MIR functions the translation is checked on: two signatures, and    *)
(* every body of at most MaxBlocks blocks and MaxInsts instructions over   *)
(* TranslateInsts.  Parameters take the local ids 0 and 1, destinations    *)
(* the ids 1 and 2, so that a destination can redefine a parameter and     *)
(* local 2 is bound only by an instruction.  Jump and Br targets range     *)
(* over present and absent block indices.                                  *)
(***************************************************************************)
IntTy == Primitive("Int")
Param(ty, id) == [type_ |-> ty, local |-> Local(id)]
Binary(op, d, l, r) == [op |-> op, dest |-> Local(d), left |-> l, right |-> r, type_ |-> IntTy]
Compare(op, d, l, r) == [op |-> op, dest |-> Local(d), left |-> l, right |-> r]
Ret(v) == [op |-> "Ret", value |-> v]
Jump(t) == [op |-> "Jump", target |-> t]
Br(c, t, e) == [op |-> "Br", condition |-> c, then_bb |-> t, else_bb |-> e]
Seven == OpConstant(ConstInt(7))

TranslateInsts ==
    { Binary("Add", 2, OpLocal(0), OpLocal(1)),
      Binary("Sub", 1, OpLocal(2), OpLocal(0)),
      Binary("Div", 2, OpLocal(0), Seven),
      Binary("Mod", 2, OpLocal(1), OpLocal(2)),
      Compare("Eq", 2, OpLocal(0), OpLocal(1)),
      Compare("Lt", 1, OpLocal(2), Seven),
      Compare("Ge", 2, OpLocal(2), OpLocal(2)),
      Ret(None),
      Ret(Some(OpLocal(2))),
      Jump(1),
      Br(OpLocal(2), 0, 1),
      Br(Seven, 1, MaxBlocks) }

Signatures ==
    { [name |-> "f", params |-> <<>>, return_type |-> None],
      [name |-> "add", params |-> <<Param(IntTy, 0), Param(Pointer(Primitive("Bool")), 1)>>,
       return_type |-> Some(IntTy)] }

SeqsUpTo(S, n) == UNION {[1..k -> S] : k \in 0..n}

\* the ways to cut L instructions into n consecutive blocks
Cuts(n, L) == {c \in [0..n -> 0..L] : c[0] = 0 /\ c[n] = L /\ \A i \in 1..n : c[i - 1] <= c[i]}

Split(s, n, c) == [i \in 1..n |-> [instructions |-> SubSeq(s, c[i - 1] + 1, c[i])]]

Bodies(insts) ==
    {<<>>} \cup
    UNION { UNION { {Split(s, n, c) : c \in Cuts(n, Len(s))} : n \in 1..MaxBlocks } :
            s \in SeqsUpTo(insts, MaxInsts) }

MirFunctions(insts) ==
    { [name |-> h.name, params |-> h.params, return_type |-> h.return_type, basic_blocks |-> b] :
        h \in Signatures, b \in Bodies(insts) }

(***************************************************************************)
(* The MIR functions every instruction family is checked on: three blocks, *)
(* the first jumping to the second, the last returning, and in the second  *)
(* every sequence of at most MaxInsts instructions of FamilyInsts.  The    *)
(* parameters are local 0 (Int) and local 1 (pointer to Int); local 2 is   *)
(* bound only by an instruction and local 3 never.  Block 0 is populated   *)
(* and block 2 is not when the second block is translated.                 *)
(***************************************************************************)
Logic(op, d, l, r) == [op |-> op, dest |-> Local(d), left |-> l, right |-> r]
Not(d, o) == [op |-> "Not", dest |-> Local(d), operand |-> o]
Load(d, src, ty) == [op |-> "Load", dest |-> Local(d), source |-> src, type_ |-> ty]
Store(dst, src, ty) == [op |-> "Store", dest |-> dst, source |-> src, type_ |-> ty]
Alloca(d, ty) == [op |-> "Alloca", dest |-> Local(d), type_ |-> ty]
Gep(d, base, index, ty) ==
    [op |-> "Gep", dest |-> Local(d), base |-> base, index |-> index, type_ |-> ty]
Call(dest, func, args) ==
    [op |-> "Call", dest |-> dest, func |-> func, args |-> args, return_type |-> IntTy]
Incoming(v, b) == [val_op |-> v, bb_idx |-> b]
Phi(d, ty, incoming) == [op |-> "Phi", dest |-> Local(d), type_ |-> ty, incoming |-> incoming]
Copy(d, src, ty) == [op |-> "Copy", dest |-> Local(d), source |-> src, type_ |-> ty]
Eight == OpConstant(ConstInt(8))

FamilyInsts ==
    { Binary("Add", 2, OpLocal(0), OpLocal(1)),
      Binary("Sub", 2, OpLocal(0), Seven),
      Binary("Mul", 2, OpLocal(2), OpLocal(0)),
      Binary("Div", 2, Seven, OpLocal(0)),
      Binary("Mod", 1, OpLocal(0), OpLocal(2)),
      Compare("Eq", 2, OpLocal(0), OpLocal(0)),
      Compare("Lt", 1, OpLocal(2), Seven),
      Compare("Ge", 2, Seven, OpLocal(3)),
      Logic("And", 2, OpLocal(0), Seven),
      Logic("Or", 1, OpLocal(2), OpLocal(0)),
      Not(2, OpLocal(0)),
      Load(2, OpLocal(1), IntTy),
      Store(OpLocal(1), OpLocal(0), IntTy),
      Store(OpLocal(1), OpLocal(2), IntTy),
      Alloca(2, IntTy),
      Gep(2, OpLocal(1), OpLocal(0), IntTy),
      Call(Some(Local(2)), "callee", <<OpLocal(0)>>),
      Call(None, "callee", <<OpLocal(3)>>),
      Phi(2, IntTy, <<>>),
      Phi(2, IntTy, <<Incoming(Seven, 0), Incoming(Eight, 2)>>),
      Phi(1, Pointer(IntTy), <<Incoming(OpLocal(1), 2), Incoming(OpLocal(2), 0)>>),
      Copy(2, OpLocal(0), IntTy),
      Copy(1, OpLocal(2), IntTy),
      Ret(None),
      Ret(Some(OpLocal(2))),
      Jump(2),
      Br(OpLocal(0), 0, 2),
      Br(OpLocal(2), 2, 0) }

FamilyFunctions ==
    { [name |-> "family",
       params |-> <<Param(IntTy, 0), Param(Pointer(IntTy), 1)>>,
       return_type |-> None,
       basic_blocks |-> <<[instructions |-> <<Jump(1)>>],
                          [instructions |-> s],
                          [instructions |-> <<Ret(None)>>]>>] :
        s \in SeqsUpTo(FamilyInsts, MaxInsts) }

(***************************************************************************)
(* The native module lifecycle.                                            *)
(*                                                                         *)
(* LlvmCodeGen::new of the g-th generator creates context g, module g and  *)
(* builder g.  native records, for every handle, whether it is live and    *)
(* who disposed it; a module also records the context it was created in    *)
(* and the functions registered in it.                                     *)
(***************************************************************************)
\* the threads that construct LlvmContext values
Threads == 1..MaxThreads

\* LLVM_INIT: Once::new(), no thread in LlvmContext::new
\* runs counts the entries into the closure, log holds the calls it made,
\* at[t] how many of them thread t has made, news[t] the contexts t created
NoInit == [once |-> "incomplete", runs |-> 0, log |-> <<>>,
           pc |-> [t \in Threads |-> "idle"], at |-> [t \in Threads |-> 0],
           news |-> [t \in Threads |-> 0]]

\* the closure of initialize_llvm, in call order
InitBody ==
    <<"LLVM_InitializeNativeTarget", "LLVM_InitializeNativeAsmPrinter",
      "LLVM_InitializeNativeAsmParser">>

\* mutant of call_once: a flag tested without the lock of Once
call_once_unlocked(once) == IF once = "complete" THEN "return" ELSE "run"
\* Once::call_once, for the caller: run the closure, wait for the thread that
\* is running it, or return at once
call_once(once) ==
    CASE once = "incomplete" -> "run"
      [] once = "running" -> "wait"
      [] once = "complete" -> "return"

\* initialize_llvm called with no other thread in it
initialize_llvm(i) ==
    IF call_once(i.once) = "run"
    THEN [i EXCEPT !.once = "complete", !.runs = @ + 1, !.log = @ \o InitBody]
    ELSE i

\* the model follows one LlvmCodeGen value from its construction to its drop
GenIds == {1}
ModIds == 1..MaxMods

NoGen == [state |-> "none", context |-> NULL, module |-> NULL, builder |-> NULL,
          opt_level |-> "", target_triple |-> ""]
NoCalls == [g \in {1} |-> 0]
NoModule == [state |-> "none", name |-> "", data |-> None]
NoNativeModule == [state |-> "none", context |-> NULL, funcs |-> <<>>,
                   by_codegen |-> 0, by_wrapper |-> 0]

\* Box<dyn Any + Send + Sync> payloads: the LLVM wrapper, or any other type
LlvmModuleWrapper(module) == [type |-> "LlvmModuleWrapper", module |-> module]
ForeignPayload == [type |-> "Foreign", module |-> NULL]

\* the arguments of LLVMCreateTargetMachine
LLVMCreateTargetMachine(triple, cpu, features, level, reloc, code_model) ==
    [triple |-> triple, cpu |-> cpu, features |-> features, level |-> level,
     reloc |-> reloc, code_model |-> code_model]
\* no target machine was created
NoTargetMachine == LLVMCreateTargetMachine("", "", "", "", "", "")

NoCall == [op |-> "none", gen |-> 0, mod |-> 0, src |-> 0, input |-> "", method |-> "",
           result |-> "", calls |-> <<>>, written |-> <<>>, ub |-> FALSE, handle |-> NULL,
           tm_created |-> 0, tm_disposed |-> 0, target |-> NoTargetMachine]

InitNative == [contexts |-> [h \in GenIds |-> "none"],
               builders |-> [h \in GenIds |-> "none"],
               modules |-> [h \in GenIds |-> NoNativeModule]]

Paths == {"a.out"}
\* Path::with_extension("o") on the paths above
WithExtensionO(path) == "a.o"

\* a native module handle that a native call may not touch: null, disposed, or
\* created in a context that has been disposed
Dangling(h) ==
    IF h = NULL THEN TRUE
    ELSE IF native.modules[h].state # "live" THEN TRUE
    ELSE native.contexts[native.modules[h].context] # "live"

FreeGens == {g \in GenIds : gens[g].state = "none"}
FreeMods == {m \in ModIds : mods[m].state = "none"}
LiveGens == {g \in GenIds : gens[g].state = "live"}
LiveMods == {m \in ModIds : mods[m].state = "live"}
Min(S) == CHOOSE x \in S : \A y \in S : x <= y

\* default_target_triple(), codegen.rs: every cfg branch of an x86_64 linux build
default_target_triple == "x86_64-unknown-linux-gnu"

\* LlvmCodeGen::new, with LlvmContext::new
NewCodeGen ==
    /\ proc = "running" /\ FreeGens # {}
    /\ LET g == Min(FreeGens) IN
        /\ gens' = [gens EXCEPT ![g] = [state |-> "live", context |-> g, module |-> g,
                                        builder |-> g, opt_level |-> "Default",
                                        target_triple |-> default_target_triple]]
        /\ native' = [native EXCEPT !.contexts[g] = "live",
                                    !.builders[g] = "live",
                                    !.modules[g] = [NoNativeModule EXCEPT !.state = "live",
                                                                          !.context = g]]
        /\ last' = [NoCall EXCEPT !.op = "new", !.gen = g,
                                  !.calls = (IF call_once(init.once) = "run"
                                             THEN InitBody ELSE <<>>)
                                            \o <<"LLVMContextCreate",
                                                 "LLVMModuleCreateWithNameInContext",
                                                 "LLVMCreateBuilderInContext">>]
    /\ init' = initialize_llvm(init)
    /\ UNCHANGED <<tf, mods, ncalls, proc>>

\* impl Drop for LlvmCodeGen, then the drop of its fields: context is the only
\* field with a destructor (impl Drop for LlvmContext)
DropCodeGen(g) ==
    /\ proc = "running" /\ gens[g].state = "live"
    /\ LET h == gens[g].module
           disposeModule == h # NULL
       IN
        /\ gens' = [gens EXCEPT ![g] = [NoGen EXCEPT !.state = "dropped"]]
        /\ native' = [native EXCEPT
                        !.builders[gens[g].builder] = "disposed",
                        !.modules = IF disposeModule
                                    THEN [@ EXCEPT ![h].state = "disposed",
                                                   ![h].by_codegen = @ + 1]
                                    ELSE @,
                        !.contexts[gens[g].context] = "disposed"]
        /\ last' = [NoCall EXCEPT !.op = "drop_codegen", !.gen = g, !.handle = h,
                                  !.calls = <<"LLVMDisposeBuilder">>
                                            \o (IF disposeModule THEN <<"LLVMDisposeModule">> ELSE <<>>)
                                            \o <<"LLVMContextDispose">>]
    /\ UNCHANGED <<init, tf, mods, ncalls, proc>>

\* set_optimization_level
SetOptimizationLevel(g, level) ==
    /\ proc = "running" /\ gens[g].state = "live"
    /\ gens' = [gens EXCEPT ![g].opt_level = level]
    /\ last' = [NoCall EXCEPT !.op = "set_optimization_level", !.gen = g]
    /\ UNCHANGED <<init, tf, mods, native, ncalls, proc>>

\* set_target_triple
SetTargetTriple(g, triple) ==
    /\ proc = "running" /\ gens[g].state = "live"
    /\ gens' = [gens EXCEPT ![g].target_triple = triple]
    /\ last' = [NoCall EXCEPT !.op = "set_target_triple", !.gen = g]
    /\ UNCHANGED <<init, tf, mods, native, ncalls, proc>>

(***************************************************************************)
(* CodeGen::generate and LlvmCodeGen::generate_from_mir.                   *)
(***************************************************************************)
HirInput == [shape |-> "Hir", mir |-> <<>>]
MirInput(fs) == [shape |-> "Mir", mir |-> fs]

\* mutant of Dispatch: every input goes to generate_from_mir
DispatchMirOnly(input) == "generate_from_mir"
\* the match of CodeGen::generate, ports/codegen.rs
Dispatch(input) ==
    IF input.shape = "Hir" THEN "generate_from_hir" ELSE "generate_from_mir"

\* lines 116-118: translate the functions in order; the first panic unwinds out
\* of generate_from_mir and leaves what was registered so far in the module
RECURSIVE TranslateAll(_, _, _, _)
TranslateAll(mir_functions, i, module, funcs) ==
    IF i > Len(mir_functions) THEN [status |-> "ok", funcs |-> funcs]
    ELSE CHOOSE r \in
            { IF f.pc = "panic"
              THEN [status |-> "panic", funcs |-> Append(funcs, f.func)]
              ELSE TranslateAll(mir_functions, i + 1, module, Append(funcs, f.func)) :
              f \in {translate_function(mir_functions[i], module)} } : TRUE

\* mutant of WrapModule: the wrapper is made after the handle was nulled
WrapModuleStale(gen) == LlvmModuleWrapper(NULL)
\* line 123: the wrapper takes the generator's handle
WrapModule(gen) == LlvmModuleWrapper(gen.module)
\* mutant of AfterTransfer: the generator keeps its handle
AfterTransferKept(gen) == gen
\* line 126: self.module = std::ptr::null_mut()
AfterTransfer(gen) == [gen EXCEPT !.module = NULL]
\* Module::with_data
with_data(name, data) == [state |-> "live", name |-> name, data |-> Some(data)]
\* Module::new
new(name) == [state |-> "live", name |-> name, data |-> None]

\* LlvmCodeGen::preferred_input
preferred_input == "Mir"

\* the default body of CodeGen::generate_from_hir, which LlvmCodeGen keeps;
\* entry is the record of the call in progress
generate_from_hir(g, entry) ==
    /\ last' = [entry EXCEPT !.method = "generate_from_hir",
                             !.result = "UnsupportedFeature"]
    /\ UNCHANGED <<init, tf, gens, mods, native, proc>>

\* LLVMAddFunction on a null module handle is undefined: the process aborts,
\* or the functions are built outside any module and the call goes on
generate_from_mir(g, mir_functions, entry) ==
    LET h == gens[g].module
        run == TranslateAll(mir_functions, 1, h, <<>>)
        ub == h = NULL /\ mir_functions # <<>>
        call == [entry EXCEPT !.method = "generate_from_mir", !.handle = h, !.ub = ub]
        registered == IF h = NULL THEN native
                      ELSE [native EXCEPT !.modules[h].funcs = @ \o run.funcs]
    IN  \/ /\ ub
           /\ proc' = "aborted"
           /\ last' = [call EXCEPT !.result = "abort"]
           /\ UNCHANGED <<init, tf, gens, mods, native>>
        \/ /\ run.status = "panic"
           /\ native' = registered
           /\ last' = [call EXCEPT !.result = "panic"]
           /\ UNCHANGED <<init, tf, gens, mods, proc>>
        \/ /\ run.status = "ok"
           /\ FreeMods # {}
           /\ LET m == Min(FreeMods) IN
                /\ mods' = [mods EXCEPT ![m] = with_data("emerald_module", WrapModule(gens[g]))]
                /\ last' = [call EXCEPT !.result = "Ok", !.mod = m]
           /\ gens' = [gens EXCEPT ![g] = AfterTransfer(@)]
           /\ native' = registered
           /\ UNCHANGED <<init, tf, proc>>

\* CodeGen::generate; entry is the record of the call: the generator it is
\* made on and the variant of its input
Generate(g, input) ==
    LET entry == [NoCall EXCEPT !.op = "generate", !.gen = g, !.input = input.shape]
    IN  /\ proc = "running" /\ gens[g].state = "live"
        /\ IF Dispatch(input) = "generate_from_hir"
           THEN generate_from_hir(g, entry) /\ UNCHANGED ncalls
           ELSE /\ ncalls[g] < MaxCalls
                /\ ncalls' = [ncalls EXCEPT ![g] = @ + 1]
                /\ generate_from_mir(g, input.mir, entry)

(***************************************************************************)
(* Module values, ports/codegen.rs.                                        *)
(***************************************************************************)
\* mutant of clone: the clone shares the payload
cloneShared(module) == [state |-> "live", name |-> module.name, data |-> module.data]
\* impl Clone for Module
clone(module) == [state |-> "live", name |-> module.name, data |-> None]

CloneModule(m) ==
    /\ proc = "running" /\ mods[m].state = "live" /\ FreeMods # {}
    /\ LET c == Min(FreeMods) IN
        /\ mods' = [mods EXCEPT ![c] = clone(mods[m])]
        /\ last' = [NoCall EXCEPT !.op = "clone", !.src = m, !.mod = c]
    /\ UNCHANGED <<init, tf, gens, native, ncalls, proc>>

\* Module::new(name) by a caller
ModuleNew(name) ==
    /\ proc = "running" /\ FreeMods # {}
    /\ LET m == Min(FreeMods) IN
        /\ mods' = [mods EXCEPT ![m] = new(name)]
        /\ last' = [NoCall EXCEPT !.op = "Module::new", !.mod = m]
    /\ UNCHANGED <<init, tf, gens, native, ncalls, proc>>

\* Module::with_data(name, payload) by a caller of another backend
ModuleWithData(name) ==
    /\ proc = "running" /\ FreeMods # {}
    /\ LET m == Min(FreeMods) IN
        /\ mods' = [mods EXCEPT ![m] = with_data(name, ForeignPayload)]
        /\ last' = [NoCall EXCEPT !.op = "Module::with_data", !.mod = m]
    /\ UNCHANGED <<init, tf, gens, native, ncalls, proc>>

\* the handle impl Drop for LlvmModuleWrapper disposes, NULL when it disposes none
WrapperDisposes(data) ==
    IF IsSome(data) /\ Unwrap(data).type = "LlvmModuleWrapper" /\ Unwrap(data).module # NULL
    THEN Unwrap(data).module
    ELSE NULL

\* dropping a Module drops its data: impl Drop for LlvmModuleWrapper.
\* LLVMDisposeModule on a module whose context is gone is undefined.
\* The record of a dropped Module keeps the name and data it had.
DropModule(m) ==
    /\ proc = "running" /\ mods[m].state = "live"
    /\ LET h == WrapperDisposes(mods[m].data)
           ub == h # NULL /\ Dangling(h)
           call == [NoCall EXCEPT !.op = "drop_module", !.mod = m, !.handle = h, !.ub = ub,
                                  !.calls = IF h # NULL THEN <<"LLVMDisposeModule">> ELSE <<>>]
       IN
        /\ mods' = [mods EXCEPT ![m].state = "dropped"]
        /\ native' = IF h # NULL
                     THEN [native EXCEPT !.modules[h].state = "disposed",
                                         !.modules[h].by_wrapper = @ + 1]
                     ELSE native
        /\ \/ proc' = proc /\ last' = call
           \/ ub /\ proc' = "aborted" /\ last' = [call EXCEPT !.result = "abort"]
    /\ UNCHANGED <<init, tf, gens, ncalls>>

(***************************************************************************)
(* LlvmOptimizer::optimize and the LlvmEmitter operations.  Each is an     *)
(* operator from the Module and the environment's answers (does the native *)
(* call succeed, does the file operation succeed) to the outcome of the    *)
(* call: its result, the native calls it made in order, the files it       *)
(* wrote, and the target machines it created and disposed.                 *)
(***************************************************************************)
\* mutant of target_machine: the target machine is built from the settings of
\* the generator
target_machine_from_settings ==
    LLVMCreateTargetMachine(gens[1].target_triple, "", "",
                            IF gens[1].opt_level = "Aggressive"
                            THEN "LLVMCodeGenLevelAggressive" ELSE "LLVMCodeGenLevelDefault",
                            "LLVMRelocDefault", "LLVMCodeModelDefault")
\* emitter.rs:38 and 55-65 (the same in emit_assembly and emit_object): the
\* triple is a literal of the emitter, the CPU and the features are empty
target_machine ==
    LLVMCreateTargetMachine("x86_64-unknown-linux-gnu", "", "", "LLVMCodeGenLevelDefault",
                            "LLVMRelocDefault", "LLVMCodeModelDefault")

Outcome(result, calls, written, created, disposed, uses) ==
    [result |-> result, calls |-> calls, written |-> written,
     tm_created |-> created, tm_disposed |-> disposed, uses |-> uses,
     target |-> IF created > 0 THEN target_machine ELSE NoTargetMachine]

\* mutant of downcast_ref: any payload is taken for the LLVM wrapper
downcast_unchecked(module) ==
    IF IsSome(module.data) THEN Some(Unwrap(module.data).module) ELSE None
\* module.data.as_ref().and_then(|d| d.downcast_ref::<LlvmModuleWrapper>()).map(|w| w.get())
downcast_ref(module) ==
    IF IsSome(module.data) /\ Unwrap(module.data).type = "LlvmModuleWrapper"
    THEN Some(Unwrap(module.data).module)
    ELSE None

\* LlvmEmitter::get_llvm_module
get_llvm_module(module) ==
    IF IsSome(downcast_ref(module))
    THEN [ok |-> TRUE, module |-> Unwrap(downcast_ref(module))]
    ELSE [ok |-> FALSE, module |-> NULL]

FuncNames(h) ==
    IF h = NULL THEN <<>>
    ELSE [i \in 1..Len(native.modules[h].funcs) |-> native.modules[h].funcs[i].name]

optimize(module) ==
    LET llvm_module == downcast_ref(module)
        h == Unwrap(llvm_module)
    IN  IF ~IsSome(llvm_module)
        THEN Outcome("OptimizationFailed", <<>>, <<>>, 0, 0, FALSE)
        ELSE Outcome("Ok",
                     <<"LLVMCreateFunctionPassManagerForModule",
                       "LLVMInitializeFunctionPassManager", "LLVMGetFirstFunction">>
                     \o [i \in 1..(2 * Len(FuncNames(h))) |->
                            IF i % 2 = 1 THEN "LLVMRunFunctionPassManager"
                            ELSE "LLVMGetNextFunction"]
                     \o <<"LLVMFinalizeFunctionPassManager", "LLVMDisposePassManager">>,
                     <<>>, 0, 0, TRUE)

TargetPrologue ==
    <<"LLVM_InitializeNativeTarget", "LLVM_InitializeNativeAsmPrinter", "LLVMGetTargetFromTriple">>

\* a file of the given kind written at path, generated from native module h:
\* what it holds of the module is the names of its functions
File(path, kind, h) == [path |-> path, kind |-> kind, names |-> FuncNames(h)]

emit_binary(module, output, env) ==
    LET r == get_llvm_module(module)
        obj_path == WithExtensionO(output)
    IN  IF ~r.ok THEN Outcome("EmissionFailed", <<>>, <<>>, 0, 0, FALSE)
        ELSE IF env = "no_target"
        THEN Outcome("EmissionFailed", TargetPrologue \o <<"LLVMDisposeMessage">>, <<>>, 0, 0, FALSE)
        ELSE IF env = "emit_fails"
        THEN Outcome("EmissionFailed",
                     TargetPrologue \o <<"LLVMCreateTargetMachine", "LLVMTargetMachineEmitToFile",
                                         "LLVMDisposeMessage">>,
                     <<>>, 1, 0, TRUE)
        ELSE IF env = "io_fails"
        THEN Outcome("Io",
                     TargetPrologue \o <<"LLVMCreateTargetMachine", "LLVMTargetMachineEmitToFile">>,
                     <<File(obj_path, "object", r.module)>>, 1, 0, TRUE)
        ELSE Outcome("Ok",
                     TargetPrologue \o <<"LLVMCreateTargetMachine", "LLVMTargetMachineEmitToFile",
                                         "LLVMDisposeTargetMachine">>,
                     <<File(obj_path, "object", r.module), File(output, "object", r.module)>>,
                     1, 1, TRUE)

\* emit_assembly and emit_object differ in the file type only
EmitToFile(module, output, env, kind) ==
    LET r == get_llvm_module(module)
    IN  IF ~r.ok THEN Outcome("EmissionFailed", <<>>, <<>>, 0, 0, FALSE)
        ELSE IF env = "no_target"
        THEN Outcome("EmissionFailed", TargetPrologue \o <<"LLVMDisposeMessage">>, <<>>, 0, 0, FALSE)
        ELSE IF env = "emit_fails"
        THEN Outcome("EmissionFailed",
                     TargetPrologue \o <<"LLVMCreateTargetMachine", "LLVMTargetMachineEmitToFile",
                                         "LLVMDisposeMessage", "LLVMDisposeTargetMachine">>,
                     <<>>, 1, 1, TRUE)
        ELSE Outcome("Ok",
                     TargetPrologue \o <<"LLVMCreateTargetMachine", "LLVMTargetMachineEmitToFile",
                                         "LLVMDisposeTargetMachine">>,
                     <<File(output, kind, r.module)>>, 1, 1, TRUE)

emit_assembly(module, output, env) == EmitToFile(module, output, env, "assembly")

emit_object(module, output, env) == EmitToFile(module, output, env, "object")

emit_llvm_ir(module, output, env) ==
    LET r == get_llvm_module(module)
    IN  IF ~r.ok THEN Outcome("EmissionFailed", <<>>, <<>>, 0, 0, FALSE)
        ELSE IF env = "emit_fails"
        THEN Outcome("EmissionFailed", <<"LLVMPrintModuleToString">>, <<>>, 0, 0, TRUE)
        ELSE IF env = "io_fails"
        THEN Outcome("Io", <<"LLVMPrintModuleToString">>, <<>>, 0, 0, TRUE)
        ELSE Outcome("Ok", <<"LLVMPrintModuleToString", "LLVMDisposeMessage">>,
                     <<File(output, "ir", r.module)>>, 0, 0, TRUE)

\* the environment's answers: every step succeeds, no target for the triple,
\* the native emission (or printing) fails, the file operation fails
Envs == {"ok", "no_target", "emit_fails", "io_fails"}

\* mutant of Apply: the call takes the payload out of the Module
ApplyTaking(op, m, o) ==
    LET h == get_llvm_module(mods[m]).module
        ub == o.uses /\ Dangling(h)
        call == [NoCall EXCEPT !.op = op, !.mod = m, !.result = o.result, !.calls = o.calls,
                               !.handle = h, !.ub = ub,
                               !.tm_created = o.tm_created, !.tm_disposed = o.tm_disposed,
                               !.target = o.target]
    IN  /\ proc = "running" /\ mods[m].state = "live"
        /\ \/ /\ last' = [call EXCEPT !.written = o.written]
              /\ proc' = proc
              /\ mods' = [mods EXCEPT ![m].data = None]
           \/ /\ ub
              /\ proc' = "aborted"
              /\ last' = [call EXCEPT !.result = "abort"]
              /\ mods' = mods
        /\ UNCHANGED <<init, tf, gens, native, ncalls>>

\* a call of the optimizer or emitter on Module m with outcome o; a native call
\* on a dangling module handle is undefined and may abort the process
Apply(op, m, o) ==
    LET h == get_llvm_module(mods[m]).module
        ub == o.uses /\ Dangling(h)
        call == [NoCall EXCEPT !.op = op, !.mod = m, !.result = o.result, !.calls = o.calls,
                               !.handle = h, !.ub = ub,
                               !.tm_created = o.tm_created, !.tm_disposed = o.tm_disposed,
                               !.target = o.target]
    IN  /\ proc = "running" /\ mods[m].state = "live"
        /\ \/ /\ last' = [call EXCEPT !.written = o.written]
              /\ proc' = proc
           \/ /\ ub
              /\ proc' = "aborted"
              /\ last' = [call EXCEPT !.result = "abort"]
        /\ UNCHANGED <<init, tf, gens, mods, native, ncalls>>

Optimize(m) == Apply("optimize", m, optimize(mods[m]))

EmitBinary(m, output, env) == Apply("emit_binary", m, emit_binary(mods[m], output, env))

EmitAssembly(m, output, env) == Apply("emit_assembly", m, emit_assembly(mods[m], output, env))

EmitLlvmIr(m, output, env) == Apply("emit_llvm_ir", m, emit_llvm_ir(mods[m], output, env))

EmitObject(m, output, env) == Apply("emit_object", m, emit_object(mods[m], output, env))

(***************************************************************************)
(* Spec: the lifecycle of generators and Modules.  generate_from_mir is    *)
(* one step, on a few MIR inputs: no function, one function, two           *)
(* functions, and a function whose translation panics.                     *)
(***************************************************************************)
AddFn ==
    [name |-> "add", params |-> <<Param(IntTy, 0), Param(IntTy, 1)>>, return_type |-> Some(IntTy),
     basic_blocks |-> <<[instructions |-> <<Binary("Add", 2, OpLocal(0), OpLocal(1)),
                                            Ret(Some(OpLocal(2)))>>]>>]
JumpFn ==
    [name |-> "f", params |-> <<>>, return_type |-> None,
     basic_blocks |-> <<[instructions |-> <<Jump(1)>>], [instructions |-> <<Ret(None)>>]>>]
UnboundFn ==
    [name |-> "g", params |-> <<>>, return_type |-> None,
     basic_blocks |-> <<[instructions |-> <<Ret(Some(OpLocal(2)))>>]>>]

MirInputs == {<<>>, <<AddFn, JumpFn>>, <<UnboundFn>>}
Inputs == {HirInput} \cup {MirInput(fs) : fs \in MirInputs}
OptLevelInputs == {"Aggressive"}
TripleInputs == {"x86_64-apple-darwin"}
NameInputs == {"other"}

Init ==
    /\ init = NoInit
    /\ tf = IdleFrame
    /\ gens = [g \in GenIds |-> NoGen]
    /\ mods = [m \in ModIds |-> NoModule]
    /\ native = InitNative
    /\ last = NoCall
    /\ ncalls = NoCalls
    /\ proc = "running"

Next ==
    \/ NewCodeGen
    \/ \E g \in GenIds : DropCodeGen(g)
    \/ \E g \in GenIds, level \in OptLevelInputs : SetOptimizationLevel(g, level)
    \/ \E g \in GenIds, triple \in TripleInputs : SetTargetTriple(g, triple)
    \/ \E g \in GenIds, input \in Inputs : Generate(g, input)
    \/ \E m \in ModIds : CloneModule(m)
    \/ \E name \in NameInputs : ModuleNew(name)
    \/ \E name \in NameInputs : ModuleWithData(name)
    \/ \E m \in ModIds : DropModule(m)
    \/ \E m \in ModIds : Optimize(m)
    \/ \E m \in ModIds, output \in Paths, env \in Envs : EmitBinary(m, output, env)
    \/ \E m \in ModIds, output \in Paths, env \in Envs \ {"io_fails"} :
            EmitAssembly(m, output, env)
    \/ \E m \in ModIds, output \in Paths, env \in Envs \ {"no_target"} :
            EmitLlvmIr(m, output, env)
    \/ \E m \in ModIds, output \in Paths, env \in Envs \ {"io_fails"} :
            EmitObject(m, output, env)

Spec == Init /\ [][Next]_vars

(***************************************************************************)
(* SpecTranslate: one call of translate_function, step by step, on the     *)
(* first generator, for every MIR function of MirFunctions(TranslateInsts).*)
(***************************************************************************)
FirstGen ==
    [state |-> "live", context |-> 1, module |-> 1, builder |-> 1,
     opt_level |-> "Default", target_triple |-> default_target_triple]

InitTranslate ==
    /\ init = initialize_llvm(NoInit)
    /\ tf \in {EntryFrame(mir_func, FirstGen.module) : mir_func \in MirFunctions(TranslateInsts)}
    /\ gens = [g \in GenIds |-> IF g = 1 THEN FirstGen ELSE NoGen]
    /\ mods = [m \in ModIds |-> NoModule]
    /\ native = [InitNative EXCEPT !.contexts[1] = "live", !.builders[1] = "live",
                                   !.modules[1] = [NoNativeModule EXCEPT !.state = "live",
                                                                         !.context = 1]]
    /\ last = NoCall
    /\ ncalls = NoCalls
    /\ proc = "running"

Translating == UNCHANGED <<init, gens, mods, native, last, ncalls, proc>>

AddFunction ==
    /\ tf.pc = "add_function"
    /\ tf' = AddFunctionStep(tf)
    /\ Translating

CreateBasicBlock ==
    /\ tf.pc = "create_blocks" /\ tf.bb_idx < NumBlocks(tf)
    /\ tf' = CreateBasicBlockStep(tf)
    /\ Translating

SetUpParameters ==
    /\ tf.pc = "create_blocks" /\ tf.bb_idx = NumBlocks(tf)
    /\ tf' = SetUpParametersStep(tf)
    /\ Translating

PositionBuilder ==
    /\ tf.pc = "blocks" /\ tf.bb_idx < NumBlocks(tf)
    /\ tf' = PositionBuilderStep(tf)
    /\ Translating

TranslateInstruction ==
    /\ tf.pc = "insts"
    /\ tf.inst_idx < Len(tf.mir_func.basic_blocks[tf.bb_idx + 1].instructions)
    /\ tf' = TranslateInstructionStep(tf)
    /\ Translating

EndBlock ==
    /\ tf.pc = "insts"
    /\ tf.inst_idx = Len(tf.mir_func.basic_blocks[tf.bb_idx + 1].instructions)
    /\ tf' = EndBlockStep(tf)
    /\ Translating

ReturnOk ==
    /\ tf.pc = "blocks" /\ tf.bb_idx = NumBlocks(tf)
    /\ tf' = ReturnOkStep(tf)
    /\ Translating

NextTranslate ==
    \/ AddFunction
    \/ CreateBasicBlock
    \/ SetUpParameters
    \/ PositionBuilder
    \/ TranslateInstruction
    \/ EndBlock
    \/ ReturnOk

SpecTranslate == InitTranslate /\ [][NextTranslate]_vars


(***************************************************************************)
(* SpecInit: LlvmContext::new called from the threads of Threads, each up  *)
(* to MaxNews times, interleaved at every call into LLVM and at the entry  *)
(* and exit of Once::call_once (context.rs).  A thread that finds the      *)
(* closure running waits inside call_once: it has no step until the        *)
(* closure has completed.                                                  *)
(***************************************************************************)
Constructing == UNCHANGED <<tf, gens, mods, native, last, ncalls, proc>>

\* LlvmContext::new is entered by thread t
ContextNew(t) ==
    /\ init.pc[t] = "idle" /\ init.news[t] < MaxNews
    /\ init' = [init EXCEPT !.pc[t] = "call_once"]
    /\ Constructing

\* LLVM_INIT.call_once(|| ..): enter the closure, or return without running it
CallOnce(t) ==
    /\ init.pc[t] = "call_once"
    /\ call_once(init.once) # "wait"
    /\ init' = IF call_once(init.once) = "run"
               THEN [init EXCEPT !.once = "running", !.runs = @ + 1,
                                 !.pc[t] = "closure", !.at[t] = 0]
               ELSE [init EXCEPT !.pc[t] = "create"]
    /\ Constructing

\* the next call of the closure
InitializeNative(t) ==
    /\ init.pc[t] = "closure" /\ init.at[t] < Len(InitBody)
    /\ init' = [init EXCEPT !.log = Append(@, InitBody[init.at[t] + 1]), !.at[t] = @ + 1]
    /\ Constructing

\* the closure has returned: the Once is complete and call_once returns
CallOnceDone(t) ==
    /\ init.pc[t] = "closure" /\ init.at[t] = Len(InitBody)
    /\ init' = [init EXCEPT !.once = "complete", !.pc[t] = "create"]
    /\ Constructing

\* LLVMContextCreate(), and LlvmContext::new returns
ContextCreate(t) ==
    /\ init.pc[t] = "create"
    /\ init' = [init EXCEPT !.news[t] = @ + 1, !.pc[t] = "idle"]
    /\ Constructing

NextInit ==
    \E t \in Threads :
        \/ ContextNew(t)
        \/ CallOnce(t)
        \/ InitializeNative(t)
        \/ CallOnceDone(t)
        \/ ContextCreate(t)

SpecInit == Init /\ [][NextInit]_vars

(***************************************************************************)
(* SpecInstructions: translate_function step by step, as in SpecTranslate, *)
(* on the functions of FamilyFunctions, on the functions of the scenarios  *)
(* below, and on one signature per MIR type of TypeInputs.                 *)
(***************************************************************************)
BoolTy == Primitive("Bool")

\* a conditional branch in block 0 to blocks 1 and 2, which return constants
BrFn ==
    [name |-> "br", params |-> <<Param(BoolTy, 0)>>, return_type |-> Some(IntTy),
     basic_blocks |-> <<[instructions |-> <<Br(OpLocal(0), 1, 2)>>],
                        [instructions |-> <<Ret(Some(Seven))>>],
                        [instructions |-> <<Ret(Some(Eight))>>]>>]
\* the same blocks declared in the opposite order: the branch comes last
BrLastFn ==
    [name |-> "br", params |-> <<Param(BoolTy, 0)>>, return_type |-> Some(IntTy),
     basic_blocks |-> <<[instructions |-> <<Ret(Some(Eight))>>],
                        [instructions |-> <<Ret(Some(Seven))>>],
                        [instructions |-> <<Br(OpLocal(0), 1, 0)>>]>>]
\* a merge block with two (constant, predecessor) pairs
PhiFn ==
    [name |-> "phi", params |-> <<>>, return_type |-> Some(IntTy),
     basic_blocks |-> <<[instructions |-> <<Jump(2)>>],
                        [instructions |-> <<Jump(2)>>],
                        [instructions |-> <<Phi(2, IntTy, <<Incoming(Seven, 0), Incoming(Eight, 1)>>),
                                            Ret(Some(OpLocal(2)))>>]>>]
\* a merge node one of whose predecessor indices, 5, is no block of the function
PhiAbsentFn ==
    [name |-> "phi_absent", params |-> <<>>, return_type |-> Some(IntTy),
     basic_blocks |-> <<[instructions |-> <<Jump(1)>>],
                        [instructions |-> <<Phi(2, IntTy, <<Incoming(Seven, 0), Incoming(Eight, 5)>>),
                                            Ret(Some(OpLocal(2)))>>]>>]
\* a loop: block 1 merges 7 from block 0 with local 2 from block 2, block 2
\* defines local 2 and jumps back to block 1
LoopFn ==
    [name |-> "loop", params |-> <<>>, return_type |-> None,
     basic_blocks |-> <<[instructions |-> <<Jump(1)>>],
                        [instructions |-> <<Phi(1, IntTy, <<Incoming(Seven, 0),
                                                             Incoming(OpLocal(2), 2)>>),
                                            Jump(2)>>],
                        [instructions |-> <<Binary("Add", 2, OpLocal(1), Seven),
                                            Jump(1)>>]>>]
ScenarioFunctions == {AddFn, BrFn, BrLastFn, PhiFn, PhiAbsentFn, LoopFn}

TypeInputs ==
    { Primitive("Byte"), Primitive("Int"), Primitive("Long"), Primitive("Size"),
      Primitive("Float"), Primitive("Bool"), Primitive("Char"),
      Pointer(IntTy), Pointer(Pointer(Primitive("Byte"))), Pointer(Primitive("Void")),
      Array(IntTy, 4), Array(Pointer(BoolTy), 2), Pointer(Array(Primitive("Char"), 3)),
      Pointer(Function(IntTy, <<IntTy, BoolTy>>)),
      Pointer(Function(Primitive("Void"), <<>>)),
      Pointer(Function(Pointer(Primitive("Long")), <<Array(Primitive("Float"), 2), StringType>>)),
      StringType, TraitObject, Pointer(TraitObject), Struct("S"), Generic, Pointer(Generic) }

\* one function per type, taking it as parameter; and one returning Void
SignatureFunctions ==
    { [name |-> "sig", params |-> <<Param(ty, 0)>>, return_type |-> None,
       basic_blocks |-> <<>>] : ty \in TypeInputs }
    \cup { [name |-> "sig", params |-> <<>>, return_type |-> Some(Primitive("Void")),
            basic_blocks |-> <<>>] }

InitInstructions ==
    /\ init = initialize_llvm(NoInit)
    /\ tf \in {EntryFrame(mir_func, FirstGen.module) :
                mir_func \in FamilyFunctions \cup ScenarioFunctions \cup SignatureFunctions}
    /\ gens = [g \in GenIds |-> IF g = 1 THEN FirstGen ELSE NoGen]
    /\ mods = [m \in ModIds |-> NoModule]
    /\ native = [InitNative EXCEPT !.contexts[1] = "live", !.builders[1] = "live",
                                   !.modules[1] = [NoNativeModule EXCEPT !.state = "live",
                                                                         !.context = 1]]
    /\ last = NoCall
    /\ ncalls = NoCalls
    /\ proc = "running"

SpecInstructions == InitInstructions /\ [][NextTranslate]_vars

(***************************************************************************)
(* SpecFunctions: the loop of generate_from_mir over mir_functions         *)
(* (codegen.rs:116-118) with every translate_function call step by step,   *)
(* on slices of at most MaxFunctions functions that use the same local ids *)
(* and block indices in different roles.  The locals of a new call are not *)
(* initialised on entry: the frame keeps what the previous call left until *)
(* the call assigns them.                                                  *)
(***************************************************************************)
\* local 2 is its parameter
ParamTwoFn ==
    [name |-> "h", params |-> <<Param(IntTy, 2)>>, return_type |-> Some(IntTy),
     basic_blocks |-> <<[instructions |-> <<Ret(Some(OpLocal(2)))>>]>>]
\* refers to local 0, which is no parameter of it
NoParamFn ==
    [name |-> "k", params |-> <<>>, return_type |-> Some(IntTy),
     basic_blocks |-> <<[instructions |-> <<Ret(Some(OpLocal(0)))>>]>>]
\* jumps to block 1 and has block 0 only
OneBlockJumpFn ==
    [name |-> "j", params |-> <<>>, return_type |-> None,
     basic_blocks |-> <<[instructions |-> <<Jump(1)>>]>>]
SliceFunctions == {AddFn, JumpFn, UnboundFn, ParamTwoFn, NoParamFn, OneBlockJumpFn}
Slices == UNION {[1..n -> SliceFunctions] : n \in 1..MaxFunctions}

InitFunctions ==
    /\ init = initialize_llvm(NoInit)
    /\ tf \in {[EntryFrame(fs[1], FirstGen.module) EXCEPT !.mir_functions = fs, !.fn_idx = 1] :
                fs \in Slices}
    /\ gens = [g \in GenIds |-> IF g = 1 THEN FirstGen ELSE NoGen]
    /\ mods = [m \in ModIds |-> NoModule]
    /\ native = [InitNative EXCEPT !.contexts[1] = "live", !.builders[1] = "live",
                                   !.modules[1] = [NoNativeModule EXCEPT !.state = "live",
                                                                         !.context = 1]]
    /\ last = NoCall
    /\ ncalls = NoCalls
    /\ proc = "running"

\* the ? after translate_function saw Ok(()): the loop calls translate_function
\* on the next function of the slice
NextFunctionStep(f) ==
    [f EXCEPT !.pc = "add_function", !.fn_idx = f.fn_idx + 1,
              !.mir_func = f.mir_functions[f.fn_idx + 1]]

NextFunction ==
    /\ tf.pc = "done" /\ tf.fn_idx < Len(tf.mir_functions)
    /\ tf' = NextFunctionStep(tf)
    /\ Translating

NextFunctions ==
    \/ AddFunction
    \/ CreateBasicBlock
    \/ SetUpParameters
    \/ PositionBuilder
    \/ TranslateInstruction
    \/ EndBlock
    \/ ReturnOk
    \/ NextFunction

SpecFunctions == InitFunctions /\ [][NextFunctions]_vars

(***************************************************************************)
(* Properties of the lifecycle, under Spec.                                *)
(***************************************************************************)
\* the handle a Module's payload wraps, NULL when the Module wraps none
PayloadHandle(m) == WrapperDisposes(mods[m].data)

\* Module m, live or dropped, is one that generate_from_mir returned with the
\* generator's native module in its payload
Returned(m) == mods[m].state \in {"live", "dropped"} /\ PayloadHandle(m) # NULL

\* the explicit LLVMDisposeModule calls made so far on native module h
Disposals(h) == native.modules[h].by_codegen + native.modules[h].by_wrapper

\* C1: for a generator on which generate_from_mir succeeded, whatever the
\* order in which the generator and the returned Module are discarded, the
\* generator's teardown never disposes the native module, the Module's
\* wrapper disposes it exactly when the Module is discarded, and once both
\* are gone it has been disposed exactly once.
C1_DisposedOnce ==
    \A m \in ModIds : Returned(m) =>
        LET h == PayloadHandle(m) IN
            /\ native.modules[h].by_codegen = 0
            /\ native.modules[h].by_wrapper = (IF mods[m].state = "dropped" THEN 1 ELSE 0)
            /\ (mods[m].state = "dropped" /\ LiveGens = {}) => Disposals(h) = 1

\* both the returned Module and then the generator have been discarded
C1_Witness ==
    /\ last.op = "drop_codegen" /\ LiveGens = {} /\ last.calls = <<"LLVMDisposeBuilder", "LLVMContextDispose">>
    /\ \E m \in ModIds : Returned(m) /\ mods[m].state = "dropped" /\ Disposals(PayloadHandle(m)) = 1

\* C2: as long as a returned Module is alive, the native module its payload
\* wraps is alive and so is the native context that module was created in,
\* whether or not the generator has been discarded.
C2_PayloadOutlivesGenerator ==
    \A m \in LiveMods : PayloadHandle(m) # NULL =>
        LET h == PayloadHandle(m) IN
            /\ native.modules[h].state = "live"
            /\ native.contexts[native.modules[h].context] = "live"

\* the generator was discarded while the Module it returned is alive
C2_Witness ==
    /\ last.op = "drop_codegen"
    /\ \E m \in LiveMods : PayloadHandle(m) # NULL

\* the owners of native module h: the live generator holding it and the
\* live Modules whose payload wraps it
Owners(h) ==
    {<<"LlvmCodeGen", g>> : g \in {g \in LiveGens : gens[g].module = h}}
    \cup {<<"Module", m>> : m \in {m \in LiveMods : PayloadHandle(m) = h}}

\* C3: every live native module has exactly one owner, and right after a
\* successful generate_from_mir the generator's handle is null and the
\* returned Module's payload wraps the handle the generator held before.
C3_SingleOwner ==
    /\ \A h \in GenIds : native.modules[h].state = "live" => Cardinality(Owners(h)) = 1
    /\ (last.op = "generate" /\ last.method = "generate_from_mir" /\ last.result = "Ok") =>
            /\ gens[last.gen].module = NULL
            /\ mods[last.mod].state = "live"
            /\ mods[last.mod].data = Some(LlvmModuleWrapper(last.handle))

\* a first generate_from_mir has just handed the native module over
C3_Witness ==
    /\ last.op = "generate" /\ last.result = "Ok" /\ last.handle # NULL
    /\ native.modules[last.handle].state = "live"
    /\ Owners(last.handle) = {<<"Module", last.mod>>}


\* C4: a step that clones a Module gives the clone the name of the original
\* and no payload and leaves the original and the native state as they were;
\* a step that discards a Module without payload makes no native call; and
\* whatever is cloned and discarded, no native module is disposed twice.
C4_CloneHasNoPayload ==
    [][/\ last'.op = "clone" =>
            /\ mods'[last'.mod].name = mods[last'.src].name
            /\ mods'[last'.mod].data = None
            /\ mods'[last'.src] = mods[last'.src]
            /\ native' = native
       /\ (last'.op = "drop_module" /\ mods[last'.mod].data = None) =>
            /\ last'.calls = <<>>
            /\ native' = native
       /\ \A h \in GenIds : native'.modules[h].by_codegen + native'.modules[h].by_wrapper <= 1
      ]_vars

\* the clone of a returned Module was discarded, and then the original
C4_Witness ==
    /\ last.op = "drop_module" /\ last.calls = <<"LLVMDisposeModule">>
    /\ \E c \in ModIds : /\ c # last.mod
                         /\ mods[c].state = "dropped"
                         /\ mods[c].name = mods[last.mod].name
                         /\ mods[c].data = None
    /\ Disposals(last.handle) = 1

\* C9: generate on a Hir input runs generate_from_hir, which on LlvmCodeGen
\* returns UnsupportedFeature and changes neither the generator (module
\* handle, builder, optimization level, target triple) nor any Module nor the
\* native state; generate on a Mir input runs generate_from_mir; the
\* preferred input of LlvmCodeGen is Mir.
C9_GenerateDispatch ==
    [][last'.op = "generate" =>
            /\ preferred_input = "Mir"
            /\ last'.input = "Hir" =>
                    /\ last'.method = "generate_from_hir"
                    /\ last'.result = "UnsupportedFeature"
                    /\ last'.calls = <<>>
                    /\ gens' = gens /\ mods' = mods /\ native' = native /\ proc' = proc
            /\ last'.input = "Mir" => last'.method = "generate_from_mir"
      ]_vars

\* generate on a Hir input has just failed on a generator that still holds
\* its module and whose level and triple were set by the caller
C9_Witness ==
    /\ last.op = "generate" /\ last.input = "Hir" /\ last.result = "UnsupportedFeature"
    /\ gens[last.gen].state = "live" /\ gens[last.gen].module # NULL
    /\ gens[last.gen].opt_level = "Aggressive"
    /\ gens[last.gen].target_triple = "x86_64-apple-darwin"

\* the Module has no payload, or a payload that is not the LLVM wrapper
PayloadMissingOrForeign(module) ==
    \/ module.data = None
    \/ module.data # None /\ module.data[1].type # "LlvmModuleWrapper"

EmitterOps == {"emit_binary", "emit_assembly", "emit_llvm_ir", "emit_object"}

\* C10: on a Module whose payload is missing or is not the LLVM wrapper,
\* optimize returns OptimizationFailed and each emit operation returns
\* EmissionFailed; the call makes no native call, writes no file, creates no
\* target machine and leaves every Module and the native state unchanged.
C10_ForeignPayloadRejected ==
    [][(/\ last'.op \in EmitterOps \cup {"optimize"}
        /\ PayloadMissingOrForeign(mods[last'.mod])) =>
            /\ last'.result = (IF last'.op = "optimize" THEN "OptimizationFailed"
                               ELSE "EmissionFailed")
            /\ last'.calls = <<>>
            /\ last'.written = <<>>
            /\ last'.tm_created = 0
            /\ mods' = mods /\ native' = native /\ gens' = gens /\ proc' = proc
      ]_vars

\* an emit operation has just been refused on a Module built by another backend
C10_Witness ==
    /\ last.op \in EmitterOps /\ last.result = "EmissionFailed" /\ last.calls = <<>>
    /\ mods[last.mod].data = Some(ForeignPayload)


\* C15: a call of emit_llvm_ir on a Module that generate_from_mir returned
\* with at least one function, unless the printer or the file system fails
\* it (EmissionFailed, Io), returns Ok and has written one file of IR text at
\* the output path that holds the name of every function of the module.
C15_IrEmissionSucceeds ==
    (/\ last.op = "emit_llvm_ir"
     /\ Returned(last.mod)
     /\ FuncNames(PayloadHandle(last.mod)) # <<>>
     /\ last.result \notin {"EmissionFailed", "Io"})
    => /\ last.result = "Ok"
       /\ Len(last.written) = 1
       /\ last.written[1].kind = "ir"
       /\ last.written[1].names = FuncNames(PayloadHandle(last.mod))

\* emit_llvm_ir aborted on a Module that generate_from_mir returned with two
\* functions, after the generator was discarded
C15_Witness ==
    /\ last.op = "emit_llvm_ir" /\ last.result = "abort" /\ last.ub
    /\ Returned(last.mod) /\ mods[last.mod].state = "live"
    /\ FuncNames(PayloadHandle(last.mod)) = <<"add", "f">>
    /\ LiveGens = {}

\* emit_llvm_ir returned Ok on such a Module while its generator is alive,
\* and the text written names both functions
C15_WitnessOk ==
    /\ last.op = "emit_llvm_ir" /\ last.result = "Ok" /\ ~last.ub
    /\ Returned(last.mod)
    /\ last.written[1].names = <<"add", "f">>


\* C19: when a call of optimize or of an emit operation returns, with Ok or
\* with an error, every Module is as before the call (the Module passed
\* holds the same payload and handle), no native handle has changed its
\* state (the module was not disposed) and no generator has changed: the
\* call left no trace but its result and the files it wrote.
C19_PayloadOnlyBorrowed ==
    [][(/\ last'.op \in EmitterOps \cup {"optimize"}
        /\ last' # last
        /\ last'.result # "abort")
       => /\ mods' = mods
          /\ native' = native
          /\ gens' = gens
          /\ proc' = proc
      ]_vars

\* optimize has returned Ok on a Module that generate_from_mir returned: the
\* Module is alive with the handle the call used, which is not disposed
C19_Witness ==
    /\ last.op = "optimize" /\ last.result = "Ok" /\ ~last.ub
    /\ mods[last.mod].state = "live"
    /\ PayloadHandle(last.mod) = last.handle /\ last.handle # NULL
    /\ native.modules[last.handle].state = "live"
    /\ Disposals(last.handle) = 0


(***************************************************************************)
(* Properties of translate_function, under SpecTranslate.                  *)
(***************************************************************************)
\* the function is registered: LLVMAddFunction has returned
FunctionAdded == tf.pc \in {"create_blocks", "blocks", "insts", "done", "panic"}
\* the loop that creates the basic blocks has ended
BlocksCreated == tf.pc \in {"blocks", "insts", "done", "panic"}

\* C5: the function translate_function registers carries the MIR function's
\* name and a non-variadic signature whose parameters are the lowered MIR
\* parameter types in count and order and whose return type is the lowered
\* declared type, void when none is declared; once its blocks are created
\* there is one per MIR block, the i-th appended one named bb<i>.
C5_OneFunctionPerMirFunction ==
    LET mir_func == tf.mir_func
        type == tf.func.type
    IN  /\ FunctionAdded =>
            /\ tf.func.registered
            /\ tf.func.name = mir_func.name
            /\ type.t = "fn" /\ type.variadic = FALSE
            /\ Len(type.params) = Len(mir_func.params)
            /\ \A i \in 1..Len(mir_func.params) :
                    type.params[i] = mir_type_to_llvm_type(mir_func.params[i].type_)
            /\ type.ret = (IF mir_func.return_type = None THEN LLVMVoidType
                           ELSE mir_type_to_llvm_type(mir_func.return_type[1]))
        /\ BlocksCreated =>
            /\ Len(tf.func.blocks) = NumBlocks(tf)
            /\ \A i \in 0..(NumBlocks(tf) - 1) : tf.func.blocks[i + 1].name = "bb" \o ToString(i)

\* the translation of a two-block function "add" (Int, pointer to Bool) -> Int
\* has returned
C5_Witness ==
    /\ tf.pc = "done" /\ tf.func.registered /\ tf.func.name = "add"
    /\ tf.func.type = LLVMFunctionType(LLVMIntType(32),
                                       <<LLVMIntType(32), LLVMPointerType(LLVMIntType(1), 0)>>,
                                       FALSE)
    /\ Len(tf.func.blocks) = 2
    /\ tf.func.blocks[1].name = "bb0" /\ tf.func.blocks[2].name = "bb1"

\* C6: from the end of block creation on, and so before any instruction of
\* any block is translated, bb_map has an entry for exactly the MIR block
\* indices 0..n-1; no later step of translate_function changes it.
C6_BlockMapComplete ==
    [][/\ tf'.pc \in {"blocks", "insts", "done", "panic"} =>
            DOMAIN tf'.bb_map = 0..(Len(tf'.mir_func.basic_blocks) - 1)
       /\ tf.pc \in {"blocks", "insts"} => tf'.bb_map = tf.bb_map
      ]_vars

\* an instruction of the second block of a function has been translated
C6_Witness ==
    /\ tf.pc = "insts" /\ tf.bb_idx = 1 /\ tf.inst_idx = 1
    /\ DOMAIN tf.bb_map = {0, 1}


\* MIR instructions by position <<block index, index in the block>>, from 0
Positions ==
    {p \in (0..(NumBlocks(tf) - 1)) \X (0..MaxInsts) :
        p[2] < Len(tf.mir_func.basic_blocks[p[1] + 1].instructions)}
InstAt(p) == tf.mir_func.basic_blocks[p[1] + 1].instructions[p[2] + 1]
\* translation order: block by block, each block front to back
Before(p, q) == p[1] < q[1] \/ (p[1] = q[1] /\ p[2] < q[2])

\* the positions whose translate_instruction call has returned Ok(())
Translated ==
    {p \in Positions :
        /\ BlocksCreated
        /\ \/ p[1] < tf.bb_idx
           \/ tf.pc \in {"insts", "panic"} /\ p[1] = tf.bb_idx /\ p[2] < tf.inst_idx}
\* the position translate_instruction was called on last when it panicked
Cursor == <<tf.bb_idx, tf.inst_idx>>

\* the operands an instruction resolves, and the local ids among them
Operands(inst) ==
    CASE inst.op \in ArithmeticOps \cup ComparisonOps -> {inst.left, inst.right}
      [] inst.op = "Ret" -> IF inst.value = None THEN {} ELSE {inst.value[1]}
      [] inst.op = "Br" -> {inst.condition}
      [] OTHER -> {}
Refs(inst) == {o.local.id : o \in {o \in Operands(inst) : o.kind = "Local"}}
Defines(inst, id) == inst.op \in ArithmeticOps \cup ComparisonOps /\ inst.dest.id = id

\* a Jump or Br one of whose target indices is no MIR block index
AbsentTarget(inst) ==
    \/ inst.op = "Jump" /\ inst.target \notin 0..(NumBlocks(tf) - 1)
    \/ inst.op = "Br" /\ ~({inst.then_bb, inst.else_bb} \subseteq 0..(NumBlocks(tf) - 1))

\* where in its target block the instruction built for position p stands
BuiltAt(p) == Cardinality({i \in 0..p[2] : ~AbsentTarget(InstAt(<<p[1], i>>))})
BuiltFor(p) == tf.func.blocks[p[1] + 1].insts[BuiltAt(p)]

\* the arithmetic and comparison instructions before p that define id
Defs(p, id) == {q \in Positions : Before(q, p) /\ Defines(InstAt(q), id)}
LastDef(p, id) == CHOOSE q \in Defs(p, id) : \A r \in Defs(p, id) : r = q \/ Before(r, q)
ParamsOf(id) == {k \in 1..Len(tf.mir_func.params) : tf.mir_func.params[k].local.id = id}
BoundAt(p, id) == Defs(p, id) # {} \/ ParamsOf(id) # {}
\* the value id stands for at p: that of the last instruction before p that
\* defined it, else that of the parameter carrying the id
ValueAt(p, id) ==
    IF Defs(p, id) # {}
    THEN InstValue(LastDef(p, id)[1] + 1, BuiltAt(LastDef(p, id)))
    ELSE LLVMGetParam((CHOOSE k \in ParamsOf(id) : TRUE) - 1)
Resolves(built, operand, p) ==
    operand.kind = "Local" => built = ValueAt(p, operand.local.id)

\* C7: every instruction translated with success referenced only local ids
\* bound before it, and each id it referenced was resolved to the value of the
\* last arithmetic or comparison instruction translated before it, in the
\* same or an earlier block, that has the id as destination (to the
\* parameter's value when there is none); a translation that panicked did so
\* at an instruction that references an id never bound, built nothing for it
\* and bound no value.
C7_BoundLocalsResolve ==
    /\ \A p \in Translated :
        LET inst == InstAt(p) IN
            /\ \A id \in Refs(inst) : BoundAt(p, id)
            /\ inst.op \in ArithmeticOps \cup ComparisonOps =>
                    /\ Resolves(BuiltFor(p).l, inst.left, p)
                    /\ Resolves(BuiltFor(p).r, inst.right, p)
            /\ (inst.op = "Ret" /\ inst.value # None) => Resolves(BuiltFor(p).val, inst.value[1], p)
            /\ (inst.op = "Br" /\ ~AbsentTarget(inst)) => Resolves(BuiltFor(p).cond, inst.condition, p)
    /\ tf.pc = "panic" =>
            /\ Cursor \in Positions
            /\ \E id \in Refs(InstAt(Cursor)) : ~BoundAt(Cursor, id)
            /\ Len(tf.func.blocks[tf.builder].insts)
                 = Cardinality({i \in 0..(tf.inst_idx - 1) : ~AbsentTarget(InstAt(<<tf.bb_idx, i>>))})
            /\ \A id \in DOMAIN tf.local_map : BoundAt(Cursor, id) /\ tf.local_map[id] = ValueAt(Cursor, id)

\* a function was translated whose second block subtracts from local 2, which
\* an instruction of the first block bound
C7_Witness ==
    /\ tf.pc = "done" /\ NumBlocks(tf) = 2
    /\ \E p \in Translated :
        /\ p[1] = 1 /\ InstAt(p).op = "Sub"
        /\ Defs(p, 2) # {} /\ LastDef(p, 2)[1] = 0
        /\ BuiltFor(p).l = InstValue(1, BuiltAt(LastDef(p, 2)))

\* the translation panicked on a reference to local 2, which nothing bound
C7_WitnessUnbound ==
    /\ tf.pc = "panic" /\ 2 \in Refs(InstAt(Cursor)) /\ ~BoundAt(Cursor, 2)

\* C8: no call of translate_instruction returns Ok(()) on a Jump whose target
\* index, or a Br whose then index or else index, is absent from bb_map.
C8_AbsentTargetIsError ==
    \A p \in Translated : ~AbsentTarget(InstAt(p))

\* translate_instruction was called on a Jump or Br with an absent target
C8_Witness ==
    /\ tf.pc \in {"insts", "panic"}
    /\ \E p \in Positions : AbsentTarget(InstAt(p)) /\ (p \in Translated \/ p = Cursor)


(***************************************************************************)
(* Properties of translate_instruction, under SpecInstructions.  A step    *)
(* "returns" when it is a call of translate_instruction that returned      *)
(* Ok(()): the frame was in the instruction loop on an instruction and is  *)
(* in the loop after the step, one instruction further.                    *)
(***************************************************************************)
OnInstruction ==
    /\ tf.pc = "insts"
    /\ tf.inst_idx < Len(tf.mir_func.basic_blocks[tf.bb_idx + 1].instructions)
InstReturned == OnInstruction /\ tf'.pc = "insts" /\ tf'.inst_idx = tf.inst_idx + 1
InstPanicked == OnInstruction /\ tf'.pc = "panic"

\* what the step appended to the block the builder stands in
Emitted ==
    SubSeq(tf'.func.blocks[tf.builder].insts,
           Len(tf.func.blocks[tf.builder].insts) + 1,
           Len(tf'.func.blocks[tf.builder].insts))
\* the step only appended: the function and its blocks are otherwise as before
OnlyAppended ==
    /\ tf'.func = [tf.func EXCEPT !.blocks[tf.builder].insts = @ \o Emitted]
    /\ tf'.bb_map = tf.bb_map /\ tf'.builder = tf.builder
\* the local ids whose binding the step added or changed
Rebound ==
    {id \in DOMAIN tf'.local_map : id \notin DOMAIN tf.local_map
                                     \/ tf'.local_map[id] # tf.local_map[id]}
\* the instruction translated last, in a state inside the instruction loop
PreviousInst == tf.mir_func.basic_blocks[tf.bb_idx + 1].instructions[tf.inst_idx]
AfterInstruction == tf.pc = "insts" /\ tf.inst_idx > 0

DestBearingOps ==
    ArithmeticOps \cup ComparisonOps \cup {"And", "Or", "Not", "Load", "Alloca", "Gep", "Phi", "Copy"}
HasDest(inst) == inst.op \in DestBearingOps \/ (inst.op = "Call" /\ inst.dest # None)
DestId(inst) == IF inst.op = "Call" THEN inst.dest[1].id ELSE inst.dest.id

\* C11: when translate_instruction returns on an instruction with a
\* destination (arithmetic, comparison, And, Or, Not, Load, Alloca, Gep, Phi,
\* Copy, Call with a destination), local_map has a binding for the
\* destination's id; a Call with a destination emits nothing and binds the
\* null constant of the void type as placeholder; a Call without destination
\* changes neither local_map nor the function being built.
C11_DestinationBound ==
    [][InstReturned =>
         LET inst == CurrentInst(tf) IN
           /\ HasDest(inst) => DestId(inst) \in DOMAIN tf'.local_map
           /\ (inst.op = "Call" /\ inst.dest # None) =>
                 /\ tf'.local_map[DestId(inst)] = LLVMConstNull(LLVMVoidType)
                 /\ tf'.func = tf.func
           /\ (inst.op = "Call" /\ inst.dest = None) =>
                 /\ tf'.local_map = tf.local_map
                 /\ tf'.func = tf.func
      ]_vars

\* a Call with destination 2 has returned after a comparison was translated,
\* local 2 stands for the placeholder, and nothing was emitted for the call
C11_Witness ==
    /\ AfterInstruction /\ tf.inst_idx = 2
    /\ PreviousInst.op = "Call" /\ PreviousInst.dest = Some(Local(2))
    /\ CurrentInst([tf EXCEPT !.inst_idx = 0]).op \in ComparisonOps
    /\ tf.local_map[2] = LLVMConstNull(LLVMVoidType)
    /\ Len(tf.func.blocks[tf.builder].insts) = 1


\* the value an operand stands for before the step: the binding of a local
\* in local_map, the 32-bit constant of an integer literal
Resolved(operand) ==
    IF operand.kind = "Local" THEN tf.local_map[operand.local.id]
    ELSE [v |-> "const", ty |-> LLVMIntType(32), val |-> operand.c.i]
\* the operation each arithmetic instruction stands for; Div and Mod are signed
SignedOperation ==
    [Add |-> "add", Sub |-> "sub", Mul |-> "mul", Div |-> "sdiv", Mod |-> "srem"]

\* C12: translating add(a: Int, b: Int) -> Int with the body
\* [Add{dest=t0, left=a, right=b}, Ret{value=t0}] leaves one registered
\* function "add" with one block that holds an add of parameter 0 and
\* parameter 1 followed by a return of the add's result, and nothing else; in
\* general a call of translate_instruction that returns on an arithmetic
\* instruction appended exactly one operation, of the matching kind (signed
\* for Div and Mod), over the resolved left and right operands in that order.
C12_ArithmeticEmitsOne ==
    [][/\ (tf'.pc = "done" /\ tf'.mir_func = AddFn) =>
            /\ tf'.func.registered /\ tf'.func.name = "add"
            /\ tf'.func.blocks =
                 <<[name |-> "bb0",
                    insts |-> <<[opc |-> "add", l |-> LLVMGetParam(0), r |-> LLVMGetParam(1)],
                                [opc |-> "ret", val |-> InstValue(1, 1)]>>]>>
       /\ (InstReturned /\ CurrentInst(tf).op \in ArithmeticOps) =>
            LET inst == CurrentInst(tf) IN
              /\ OnlyAppended
              /\ Emitted = <<[opc |-> SignedOperation[inst.op],
                              l |-> Resolved(inst.left), r |-> Resolved(inst.right)]>>
      ]_vars

\* the translation of add(a, b) has returned with the add and the return built
C12_Witness ==
    /\ tf.pc = "done" /\ tf.mir_func = AddFn
    /\ Len(tf.func.blocks) = 1 /\ Len(tf.func.blocks[1].insts) = 2
    /\ tf.func.blocks[1].insts[1].opc = "add"
    /\ tf.func.blocks[1].insts[2].opc = "ret"

\* a signed division of the constant 7 by parameter 0 has been built
C12_WitnessDiv ==
    /\ AfterInstruction /\ PreviousInst.op = "Div"
    /\ tf.func.blocks[tf.builder].insts[Len(tf.func.blocks[tf.builder].insts)]
         = [opc |-> "sdiv", l |-> LLVMConstInt(LLVMIntType(32), 7), r |-> LLVMGetParam(0)]


\* both target indices of a Br are indices of blocks of the function
TargetsDeclared(inst) == {inst.then_bb, inst.else_bb} \subseteq 0..(NumBlocks(tf) - 1)
\* the target block created for MIR block index i: the one named bb<i>
IsBlockOf(handle, i) ==
    /\ handle \in 1..Len(tf'.func.blocks)
    /\ tf'.func.blocks[handle].name = "bb" \o ToString(i)

\* C13: translating the function whose block 0 is Br{condition=c, then=1,
\* else=2} and whose blocks 1 and 2 return different constants leaves three
\* blocks, block 0 holding one conditional branch on c to the blocks of index
\* 1 and 2, also when the blocks are declared in the opposite order and the
\* branch is translated last; in general a call of translate_instruction
\* that returns on a Br whose then-index and else-index are block indices of
\* the function appended exactly one conditional branch, on the resolved
\* condition, whose true successor is the block created for the then-index
\* and whose false successor is the block created for the else-index,
\* whether or not those blocks hold instructions yet.  (A Br with an index
\* that is no block index is the subject of C8.)
C13_BrEmitsCondBr ==
    [][/\ (tf'.pc = "done" /\ tf'.mir_func = BrFn) =>
            tf'.func.blocks =
                <<[name |-> "bb0", insts |-> <<[opc |-> "condbr", cond |-> LLVMGetParam(0),
                                                then |-> 2, else |-> 3]>>],
                  [name |-> "bb1", insts |-> <<[opc |-> "ret", val |-> LLVMConstInt(LLVMIntType(32), 7)]>>],
                  [name |-> "bb2", insts |-> <<[opc |-> "ret", val |-> LLVMConstInt(LLVMIntType(32), 8)]>>]>>
       /\ (tf'.pc = "done" /\ tf'.mir_func = BrLastFn) =>
            tf'.func.blocks =
                <<[name |-> "bb0", insts |-> <<[opc |-> "ret", val |-> LLVMConstInt(LLVMIntType(32), 8)]>>],
                  [name |-> "bb1", insts |-> <<[opc |-> "ret", val |-> LLVMConstInt(LLVMIntType(32), 7)]>>],
                  [name |-> "bb2", insts |-> <<[opc |-> "condbr", cond |-> LLVMGetParam(0),
                                                then |-> 2, else |-> 1]>>]>>
       /\ (InstReturned /\ CurrentInst(tf).op = "Br" /\ TargetsDeclared(CurrentInst(tf))) =>
            LET inst == CurrentInst(tf) IN
              /\ OnlyAppended
              /\ Len(Emitted) = 1
              /\ Emitted[1].opc = "condbr"
              /\ Emitted[1].cond = Resolved(inst.condition)
              /\ IsBlockOf(Emitted[1].then, inst.then_bb)
              /\ IsBlockOf(Emitted[1].else, inst.else_bb)
      ]_vars

\* the Br of block 0 has been translated while blocks 1 and 2 are still empty
C13_Witness ==
    /\ tf.mir_func = BrFn /\ AfterInstruction /\ tf.bb_idx = 0
    /\ tf.func.blocks[1].insts = <<[opc |-> "condbr", cond |-> LLVMGetParam(0),
                                    then |-> 2, else |-> 3]>>
    /\ tf.func.blocks[2].insts = <<>> /\ tf.func.blocks[3].insts = <<>>

\* a Br has been translated whose two target blocks were populated before it
C13_WitnessPopulated ==
    /\ tf.mir_func = BrLastFn /\ AfterInstruction /\ tf.bb_idx = 2
    /\ tf.func.blocks[3].insts[1].opc = "condbr"
    /\ tf.func.blocks[1].insts # <<>> /\ tf.func.blocks[2].insts # <<>>


\* the target type each MIR type stands for, for the MIR types made of
\* primitives, pointers, arrays, function types, String and TraitObject
Sizes == [Byte |-> 8, Int |-> 32, Long |-> 64, Size |-> 64, Bool |-> 1, Char |-> 32]
BytePointer == [t |-> "ptr", pointee |-> [t |-> "int", bits |-> 8], addrspace |-> 0]
RECURSIVE Lowered(_)
Lowered(ty) ==
    CASE ty.kind = "Primitive" ->
            IF ty.p = "Void" THEN [t |-> "void"]
            ELSE IF ty.p = "Float" THEN [t |-> "double"]
            ELSE [t |-> "int", bits |-> Sizes[ty.p]]
      [] ty.kind = "Pointer" -> [t |-> "ptr", pointee |-> Lowered(ty.pointee), addrspace |-> 0]
      [] ty.kind = "Array" -> [t |-> "array", element |-> Lowered(ty.element), len |-> ty.size]
      [] ty.kind = "Function" ->
            [t |-> "fn", ret |-> Lowered(ty.return_type),
             params |-> [i \in 1..Len(ty.params) |-> Lowered(ty.params[i])],
             variadic |-> FALSE]
      [] ty.kind \in {"String", "TraitObject"} -> BytePointer

\* C14: a call of translate_instruction that returns on Phi{dest, type,
\* incoming} with k incoming pairs appended exactly one merge node, of the
\* lowered type, with exactly k edges, the i-th pairing the resolved i-th
\* value with the block created for the i-th predecessor index, and bound
\* dest to that node; two (constant, predecessor) pairs give the two edges
\* of those predecessors, and an empty list gives a node without edges that
\* is bound all the same.
C14_PhiEdges ==
    [][/\ (InstReturned /\ CurrentInst(tf).op = "Phi") =>
            LET inst == CurrentInst(tf)
                k == Len(inst.incoming)
            IN  /\ OnlyAppended
                /\ Len(Emitted) = 1
                /\ Emitted[1].opc = "phi"
                /\ Emitted[1].ty = Lowered(inst.type_)
                /\ Len(Emitted[1].incoming) = k
                /\ \A i \in 1..k :
                      /\ Emitted[1].incoming[i].value = Resolved(inst.incoming[i].val_op)
                      /\ IsBlockOf(Emitted[1].incoming[i].block, inst.incoming[i].bb_idx)
                /\ tf'.local_map[inst.dest.id]
                     = [v |-> "inst", bb |-> tf.builder,
                        pos |-> Len(tf'.func.blocks[tf.builder].insts)]
       /\ (tf'.pc = "done" /\ tf'.mir_func = PhiFn) =>
            tf'.func.blocks[3].insts =
                <<[opc |-> "phi", ty |-> [t |-> "int", bits |-> 32],
                   incoming |-> <<[value |-> LLVMConstInt(LLVMIntType(32), 7), block |-> 1],
                                  [value |-> LLVMConstInt(LLVMIntType(32), 8), block |-> 2]>>],
                  [opc |-> "ret", val |-> InstValue(3, 1)]>>
      ]_vars

\* the Phi of the merge block, with the constants 7 from block 0 and 8 from
\* block 1, has been translated and its destination stands for the node
C14_Witness ==
    /\ tf.mir_func = PhiFn /\ AfterInstruction /\ tf.bb_idx = 2 /\ tf.inst_idx = 1
    /\ Len(tf.func.blocks[3].insts[1].incoming) = 2
    /\ tf.local_map[2] = InstValue(3, 1)

\* a Phi with an empty incoming list has been translated: a node without
\* edges, which its destination stands for
C14_WitnessEmpty ==
    /\ AfterInstruction /\ PreviousInst.op = "Phi" /\ PreviousInst.incoming = <<>>
    /\ tf.func.blocks[tf.builder].insts[Len(tf.func.blocks[tf.builder].insts)].incoming = <<>>
    /\ tf.local_map[2] = InstValue(tf.builder, Len(tf.func.blocks[tf.builder].insts))


\* the MIR types made of primitives, pointers, arrays, function types, String
\* and TraitObject only
RECURSIVE Listed(_)
Listed(ty) ==
    CASE ty.kind \in {"Primitive", "String", "TraitObject"} -> TRUE
      [] ty.kind = "Pointer" -> Listed(ty.pointee)
      [] ty.kind = "Array" -> Listed(ty.element)
      [] ty.kind = "Function" ->
            Listed(ty.return_type) /\ \A i \in 1..Len(ty.params) : Listed(ty.params[i])
      [] OTHER -> FALSE
TargetTypeKinds == {"void", "int", "double", "ptr", "array", "struct", "fn"}

\* C16: lowering yields a target type for every MIR type of a signature
\* (the function is registered with one type per parameter), and for the
\* types made of primitives, pointers, arrays, function types, String and
\* TraitObject it is: Void to void, Byte to 8 bits, Int to 32, Long and Size
\* to 64, Float to double, Bool to 1 bit, Char to 32 bits, a pointer to a
\* pointer to the lowered pointee in address space 0, an array to an array
\* of the same length of the lowered element, a function type to a
\* non-variadic signature of the lowered return and parameter types, String
\* and TraitObject to a pointer to 8-bit integers.
C16_TypeLowering ==
    FunctionAdded =>
        LET mir_func == tf.mir_func
            type == tf.func.type
        IN  /\ Len(type.params) = Len(mir_func.params)
            /\ \A i \in 1..Len(mir_func.params) :
                  /\ type.params[i].t \in TargetTypeKinds
                  /\ Listed(mir_func.params[i].type_) =>
                        type.params[i] = Lowered(mir_func.params[i].type_)
            /\ type.ret.t \in TargetTypeKinds
            /\ (mir_func.return_type # None /\ Listed(mir_func.return_type[1])) =>
                  type.ret = Lowered(mir_func.return_type[1])

\* a function was registered whose parameter is a pointer to a function from
\* (array of 2 Float, String) to pointer to Long
C16_Witness ==
    /\ FunctionAdded /\ tf.mir_func.name = "sig"
    /\ tf.mir_func.params =
         <<Param(Pointer(Function(Pointer(Primitive("Long")),
                                  <<Array(Primitive("Float"), 2), StringType>>)), 0)>>
    /\ tf.func.type.params[1] =
         [t |-> "ptr", addrspace |-> 0,
          pointee |-> [t |-> "fn", variadic |-> FALSE,
                       ret |-> [t |-> "ptr", addrspace |-> 0, pointee |-> [t |-> "int", bits |-> 64]],
                       params |-> <<[t |-> "array", len |-> 2, element |-> [t |-> "double"]],
                                    BytePointer>>]]


\* a Generic occurs in the MIR type
RECURSIVE HasGeneric(_)
HasGeneric(ty) ==
    CASE ty.kind = "Generic" -> TRUE
      [] ty.kind = "Pointer" -> HasGeneric(ty.pointee)
      [] ty.kind = "Array" -> HasGeneric(ty.element)
      [] ty.kind = "Function" ->
            HasGeneric(ty.return_type) \/ \E i \in 1..Len(ty.params) : HasGeneric(ty.params[i])
      [] OTHER -> FALSE
GenericInSignature ==
    \/ \E i \in 1..Len(tf.mir_func.params) : HasGeneric(tf.mir_func.params[i].type_)
    \/ tf.mir_func.return_type # None /\ HasGeneric(tf.mir_func.return_type[1])

\* C17: translate_function never gets past the lowering of a signature in
\* which a Generic type occurs: the lowering panics, no function is
\* registered with a target type standing in for the Generic.
C17_GenericIsInternalError ==
    (GenericInSignature /\ tf.pc # "add_function") => (tf.pc = "panic" /\ ~tf.func.registered)

\* the translation of a function with a Generic parameter has returned
\* Ok(()), the parameter lowered to a pointer to 8-bit integers
C17_Witness ==
    /\ tf.pc = "done" /\ tf.mir_func.params = <<Param(Generic, 0)>>
    /\ tf.func.registered /\ tf.func.type.params = <<BytePointer>>


(***************************************************************************)
(* Properties of the one-time initialization, under SpecInit.              *)
(***************************************************************************)
\* C18: whatever the number of LlvmContext::new calls and the threads they
\* come from, the closure of initialize_llvm is entered at most once, by one
\* thread at a time, and whenever a thread is about to create its context
\* or has created one, the closure has been entered exactly once and has
\* completed, having made its three initialization calls once each in order.
C18_InitializedOnce ==
    /\ init.runs <= 1
    /\ Cardinality({t \in Threads : init.pc[t] = "closure"}) <= 1
    /\ \A t \in Threads :
          (init.pc[t] = "create" \/ init.news[t] > 0) =>
              /\ init.runs = 1
              /\ init.once = "complete"
              /\ init.log = InitBody

\* every thread has created two contexts after one run of the closure
C18_Witness ==
    /\ \A t \in Threads : init.news[t] >= 2
    /\ init.runs = 1 /\ init.log = InitBody

\* a thread is inside call_once waiting while another runs the closure
C18_WitnessWaiting ==
    \E t, u \in Threads :
        /\ init.pc[t] = "call_once" /\ init.pc[u] = "closure" /\ init.at[u] = 1
        /\ call_once(init.once) = "wait"


\* the four families translate_instruction tries, and the frame it would end
\* in if it tried them in the given order before its own match
Families == {"arithmetic", "comparison", "memory", "control_flow"}
Try(family, f, inst) ==
    CASE family = "arithmetic" -> translate_arithmetic(f, inst)
      [] family = "comparison" -> translate_comparison(f, inst)
      [] family = "memory" -> translate_memory(f, inst)
      [] family = "control_flow" -> translate_control_flow(f, inst)
Taken(r) == r.ret \in {"Some", "true", "panic"}
RECURSIVE TryInOrder(_, _, _)
TryInOrder(order, f, inst) ==
    IF order = <<>> THEN translate_remaining(f, inst)
    ELSE CHOOSE g \in {IF Taken(r) THEN r.f ELSE TryInOrder(Tail(order), r.f, inst) :
                          r \in {Try(Head(order), f, inst)}} : TRUE
Orders == {o \in [1..4 -> Families] : \A i, j \in 1..4 : o[i] = o[j] => i = j}
\* the families, the match of translate_instruction included, that act on
\* the instruction: report it as theirs or change the frame
Acting(f, inst) ==
    {fam \in Families : Taken(Try(fam, f, inst)) \/ Try(fam, f, inst).f # f}
    \cup (IF translate_remaining(f, inst) # f THEN {"remaining"} ELSE {})

\* the one family each instruction tag belongs to
FamilyOf(op) ==
    CASE op \in ArithmeticOps -> "arithmetic"
      [] op \in ComparisonOps -> "comparison"
      [] op \in {"Load", "Store", "Alloca", "Gep"} -> "memory"
      [] op \in {"Ret", "Jump", "Br"} -> "control_flow"
      [] OTHER -> "remaining"

\* C20: on every call of translate_instruction no family but the one the
\* instruction's tag belongs to acts on the instruction; a call that returns appended at most one operation and changed local_map at
\* most at one id; trying the four families in any other order before the
\* match on the remaining instructions gives the same frame; a Store
\* appended exactly one store of the resolved source to the resolved
\* destination pointer and bound nothing.
C20_OneFamilyPerInstruction ==
    [][OnInstruction =>
         LET inst == CurrentInst(tf) IN
           /\ Acting(tf, inst) \subseteq {FamilyOf(inst.op)}
           /\ \A o \in Orders :
                 TryInOrder(o, tf, inst) = translate_instruction(tf, inst)
           /\ InstReturned =>
                 /\ OnlyAppended
                 /\ Len(Emitted) <= 1
                 /\ Cardinality(Rebound) <= 1
                 /\ DOMAIN tf.local_map \subseteq DOMAIN tf'.local_map
                 /\ [tf' EXCEPT !.inst_idx = tf.inst_idx] = translate_instruction(tf, inst)
           /\ (InstReturned /\ inst.op = "Store") =>
                 /\ Emitted = <<[opc |-> "store", val |-> Resolved(inst.source),
                                 ptr |-> Resolved(inst.dest)]>>
                 /\ tf'.local_map = tf.local_map
      ]_vars

\* a Store of parameter 0 through the pointer parameter 1 has returned as
\* the only instruction translated in its block, which holds the one store
C20_Witness ==
    /\ AfterInstruction /\ tf.inst_idx = 1 /\ PreviousInst.op = "Store"
    /\ tf.func.blocks[tf.builder].insts =
         <<[opc |-> "store", val |-> LLVMGetParam(0), ptr |-> LLVMGetParam(1)]>>


(***************************************************************************)
(* Properties of the block loop of translate_function, under               *)
(* SpecTranslate.                                                          *)
(***************************************************************************)
TerminatorOps == {"ret", "ret void", "br", "condbr"}
IsTerminator(inst) == inst.op \in {"Ret", "Jump", "Br"}
\* the translated positions of MIR block b, and the operations in its target block
TranslatedIn(b) == {p \in Translated : p[1] = b}
TargetInsts(b) == tf.func.blocks[b + 1].insts
TerminatorsIn(b) ==
    Cardinality({k \in 1..Len(TargetInsts(b)) : TargetInsts(b)[k].opc \in TerminatorOps})

\* C21: once the blocks are created, the terminators in every target block
\* are as many as the Ret, Jump and Br instructions translated so far in its
\* MIR block whose target indices are in bb_map, none is added for a block
\* without them, and every translated instruction (but a Jump or Br with an
\* absent target) has its operation in the block, those after a terminator
\* included; a translation only panics on a reference to an unbound local,
\* never for the lack of a terminator.
C21_TerminatorsAsInMir ==
    /\ BlocksCreated =>
          \A b \in 0..(NumBlocks(tf) - 1) :
              /\ TerminatorsIn(b)
                   = Cardinality({p \in TranslatedIn(b) :
                                     IsTerminator(InstAt(p)) /\ ~AbsentTarget(InstAt(p))})
              /\ Len(TargetInsts(b))
                   = Cardinality({p \in TranslatedIn(b) : ~AbsentTarget(InstAt(p))})
              /\ \A p \in TranslatedIn(b) :
                    ~AbsentTarget(InstAt(p)) =>
                        (BuiltFor(p).opc \in TerminatorOps <=> IsTerminator(InstAt(p)))
    /\ tf.pc = "panic" => \E id \in Refs(InstAt(Cursor)) : ~BoundAt(Cursor, id)

\* translate_function has returned on two blocks: the first holds a return
\* followed by an addition, the second is empty and has no terminator
C21_Witness ==
    /\ tf.pc = "done" /\ NumBlocks(tf) = 2
    /\ Len(TargetInsts(0)) = 2
    /\ TargetInsts(0)[1].opc = "ret void" /\ TargetInsts(0)[2].opc = "add"
    /\ TargetInsts(1) = <<>>


\* the operation an instruction of TranslateInsts stands for
OpcodeFor(inst) ==
    CASE inst.op \in ArithmeticOps -> SignedOperation[inst.op]
      [] inst.op \in ComparisonOps -> "icmp"
      [] inst.op = "Ret" -> IF inst.value = None THEN "ret void" ELSE "ret"
      [] inst.op = "Jump" -> "br"
      [] inst.op = "Br" -> "condbr"
\* s is an initial part of t
IsPrefix(s, t) == Len(s) <= Len(t) /\ SubSeq(t, 1, Len(s)) = s

\* C22: the block loop goes through the MIR blocks by increasing index, one
\* at a time, and leaves a block only when all its instructions have been
\* translated; while the instructions of MIR block i are translated the
\* builder stands in the target block bb<i>; a call of translate_instruction
\* only appends, at the end of that block, and touches no other block; so
\* at every moment the operations of target block i are those of the
\* instructions of MIR block i translated so far, in MIR order, and the
\* blocks not reached yet are empty.
C22_BlockAndInstructionOrder ==
    [][/\ tf.pc \in {"blocks", "insts"} =>
            /\ tf'.bb_idx \in {tf.bb_idx, tf.bb_idx + 1}
            /\ tf'.bb_idx = tf.bb_idx + 1 =>
                  /\ tf.pc = "insts"
                  /\ tf.inst_idx = Len(tf.mir_func.basic_blocks[tf.bb_idx + 1].instructions)
            /\ (tf.pc = "insts" /\ tf'.pc = "insts" /\ tf'.bb_idx = tf.bb_idx) =>
                  tf'.inst_idx = tf.inst_idx + 1
       /\ tf'.pc = "insts" =>
            /\ tf'.builder \in 1..Len(tf'.func.blocks)
            /\ tf'.func.blocks[tf'.builder].name = "bb" \o ToString(tf'.bb_idx)
            /\ tf'.builder = tf'.bb_idx + 1
       /\ OnInstruction =>
            /\ Len(tf'.func.blocks) = Len(tf.func.blocks)
            /\ \A b \in 1..Len(tf.func.blocks) :
                  /\ IsPrefix(tf.func.blocks[b].insts, tf'.func.blocks[b].insts)
                  /\ b # tf.bb_idx + 1 => tf'.func.blocks[b] = tf.func.blocks[b]
       /\ BlocksCreated' =>
            \A b \in 0..(Len(tf'.mir_func.basic_blocks) - 1) :
                LET done == {k \in 0..MaxInsts :
                                /\ k < Len(tf'.mir_func.basic_blocks[b + 1].instructions)
                                /\ \/ b < tf'.bb_idx
                                   \/ b = tf'.bb_idx /\ tf'.pc \in {"insts", "panic"}
                                                     /\ k < tf'.inst_idx}
                    emitting == {k \in done :
                                   LET inst == tf'.mir_func.basic_blocks[b + 1].instructions[k + 1]
                                   IN  \/ inst.op \notin {"Jump", "Br"}
                                       \/ inst.op = "Jump" /\ inst.target \in DOMAIN tf'.bb_map
                                       \/ inst.op = "Br" /\ {inst.then_bb, inst.else_bb}
                                                               \subseteq DOMAIN tf'.bb_map}
                    insts == tf'.func.blocks[b + 1].insts
                IN  /\ Len(insts) = Cardinality(emitting)
                    /\ \A k \in emitting :
                          insts[Cardinality({j \in emitting : j <= k})].opc
                            = OpcodeFor(tf'.mir_func.basic_blocks[b + 1].instructions[k + 1])
      ]_vars

\* translate_function has returned on one block of an addition followed by a
\* subtraction: the add stands before the sub, which uses the add's value
C22_Witness ==
    /\ tf.pc = "done" /\ NumBlocks(tf) = 1
    /\ Len(TargetInsts(0)) = 2
    /\ TargetInsts(0)[1].opc = "add" /\ TargetInsts(0)[2].opc = "sub"
    /\ TargetInsts(0)[2].l = InstValue(1, 1)

\* the builder stands in the second block, whose first instruction has been
\* translated after the one instruction of the first block
C22_WitnessSecondBlock ==
    /\ tf.pc = "insts" /\ tf.bb_idx = 1 /\ tf.inst_idx = 1 /\ tf.builder = 2
    /\ Len(TargetInsts(0)) = 1 /\ Len(TargetInsts(1)) = 1


(***************************************************************************)
(* Properties of the loop of generate_from_mir, under SpecFunctions.       *)
(***************************************************************************)
\* local_map has been created by the running translate_function call
EnvironmentSet == tf.pc \in {"blocks", "insts", "done", "panic"}
\* the position the translation of the current function has reached
Reached == <<tf.bb_idx, IF tf.pc \in {"insts", "panic"} THEN tf.inst_idx ELSE 0>>

\* C23: when the block loop of a translate_function call starts, local_map
\* holds exactly the ids of that function's parameters, the id of parameter
\* i bound to target parameter i; at every later moment each binding of
\* local_map is a parameter of the function being translated or the value
\* of an instruction of that function translated before, and every
\* instruction translated referred only to such ids, whatever the functions
\* translated earlier in the same generate_from_mir call bound; bb_map
\* likewise holds only indices of blocks of the function being translated,
\* each mapped to the block created for it in this function.
C23_FreshEnvironmentPerFunction ==
    /\ (tf.pc = "blocks" /\ tf.bb_idx = 0) =>
          /\ DOMAIN tf.local_map
               = {tf.mir_func.params[k].local.id : k \in 1..Len(tf.mir_func.params)}
          /\ \A k \in 1..Len(tf.mir_func.params) :
                tf.local_map[tf.mir_func.params[k].local.id] = [v |-> "param", idx |-> k - 1]
    /\ EnvironmentSet =>
          /\ \A id \in DOMAIN tf.local_map :
                BoundAt(Reached, id) /\ tf.local_map[id] = ValueAt(Reached, id)
          /\ \A p \in Translated : \A id \in Refs(InstAt(p)) : BoundAt(p, id)
    /\ FunctionAdded =>
          \A i \in DOMAIN tf.bb_map :
              /\ i \in 0..(NumBlocks(tf) - 1)
              /\ tf.bb_map[i] \in 1..Len(tf.func.blocks)
              /\ tf.func.blocks[tf.bb_map[i]].name = "bb" \o ToString(i)
    /\ BlocksCreated => DOMAIN tf.bb_map = 0..(NumBlocks(tf) - 1)

\* after add, which bound the locals 0, 1 and 2, the function g of the same
\* slice panicked on local 2 with an empty local_map
C23_Witness ==
    /\ tf.mir_functions = <<AddFn, UnboundFn>> /\ tf.fn_idx = 2
    /\ tf.pc = "panic" /\ tf.local_map = EmptyMap

\* after f, of two blocks, the one-block function j was translated: its Jump
\* to block 1 found no entry in bb_map and built nothing
C23_WitnessBlockMap ==
    /\ tf.mir_functions = <<JumpFn, OneBlockJumpFn>> /\ tf.fn_idx = 2
    /\ tf.pc = "done" /\ DOMAIN tf.bb_map = {0} /\ tf.func.blocks[1].insts = <<>>

(***************************************************************************)
(* The settings of a generator.                                            *)
(***************************************************************************)
\* the stored settings of a generator
Settings(gen) == <<gen.opt_level, gen.target_triple>>
\* the generator with the settings it was constructed with
Unset(gen) == [gen EXCEPT !.opt_level = "Default", !.target_triple = "x86_64-unknown-linux-gnu"]
\* the calls that build a target machine
TargetMachineOps == {"emit_binary", "emit_assembly", "emit_object"}
ModuleOps == TargetMachineOps \cup {"emit_llvm_ir", "optimize"}

AbsentPredecessors(inst) ==
    {i \in 1..Len(inst.incoming) : inst.incoming[i].bb_idx \notin DOMAIN tf.bb_map}
\* every predecessor index of every Phi of the function is a block index of it
PredecessorsDeclared ==
    \A p \in Positions :
        InstAt(p).op = "Phi" =>
            \A i \in 1..Len(InstAt(p).incoming) :
                InstAt(p).incoming[i].bb_idx \in 0..(NumBlocks(tf) - 1)
\* every incoming value of the Phi is a constant or a local bound in local_map
ValuesBound(inst) ==
    \A i \in 1..Len(inst.incoming) :
        inst.incoming[i].val_op.kind = "Local" =>
            inst.incoming[i].val_op.local.id \in DOMAIN tf.local_map

\* C25: translating a Phi one of whose predecessor indices has no entry in
\* bb_map panics: the node built before the lookup is left without any edge,
\* dest is not bound and no later instruction is translated; in a function
\* whose Phi predecessor indices are all block indices of the function no
\* predecessor is absent when a Phi is translated, whether its index is lower
\* or higher than that of the Phi's block, and a Phi whose values are bound
\* returns with each edge on the block created for its predecessor index.
C25_AbsentPredecessorPanics ==
    [][(OnInstruction /\ CurrentInst(tf).op = "Phi" /\ tf' # tf) =>
          LET inst == CurrentInst(tf) IN
            /\ AbsentPredecessors(inst) # {} =>
                  /\ InstPanicked
                  /\ OnlyAppended
                  /\ \A k \in 1..Len(Emitted) : Emitted[k].opc = "phi" /\ Emitted[k].incoming = <<>>
                  /\ tf'.local_map = tf.local_map
            /\ PredecessorsDeclared =>
                  /\ AbsentPredecessors(inst) = {}
                  /\ ValuesBound(inst) =>
                        /\ InstReturned
                        /\ Len(Emitted) = 1
                        /\ Len(Emitted[1].incoming) = Len(inst.incoming)
                        /\ \A i \in 1..Len(inst.incoming) :
                              IsBlockOf(Emitted[1].incoming[i].block, inst.incoming[i].bb_idx)
      ]_vars

\* the Phi of phi_absent, with predecessor index 5 in a function of two
\* blocks, panicked; the node it built in block 1 has no edge
C25_Witness ==
    /\ tf.mir_func = PhiAbsentFn /\ tf.pc = "panic" /\ Cursor = <<1, 0>>
    /\ Len(tf.func.blocks[2].insts) = 1
    /\ tf.func.blocks[2].insts[1].incoming = <<>>
    /\ 2 \notin DOMAIN tf.local_map

\* a Phi in block 1 with the predecessors 0 and 2 was translated: its second
\* edge is on the block of index 2, created before any instruction
C25_WitnessHigher ==
    /\ AfterInstruction /\ tf.bb_idx = 1
    /\ PreviousInst = Phi(2, IntTy, <<Incoming(Seven, 0), Incoming(Eight, 2)>>)
    /\ \E k \in 1..Len(tf.func.blocks[2].insts) :
          /\ tf.func.blocks[2].insts[k].opc = "phi"
          /\ Len(tf.func.blocks[2].insts[k].incoming) = 2
          /\ tf.func.blocks[2].insts[k].incoming[2].block = 3

(***************************************************************************)
(* Repeated generate_from_mir calls on one generator.                      *)
(***************************************************************************)
\* the last call was generate_from_mir
GenerateFromMirCalled == last.op = "generate" /\ last.method = "generate_from_mir"

\* C26: when generate_from_mir returns Ok, on the first or on a later call on
\* the same generator, the Module it returned wraps a non-null native module
\* handle; and no generate_from_mir call passes a null module handle to
\* LLVMAddFunction.
C26_ReturnedHandleNonNull ==
    GenerateFromMirCalled =>
        /\ last.result = "Ok" =>
              /\ IsSome(mods[last.mod].data)
              /\ Unwrap(mods[last.mod].data).type = "LlvmModuleWrapper"
              /\ Unwrap(mods[last.mod].data).module # NULL
        /\ ~last.ub

\* the second generate_from_mir call on a generator, with an empty slice,
\* returned Ok with a Module that wraps the null handle the first call left
C26_Witness ==
    /\ GenerateFromMirCalled /\ last.result = "Ok" /\ ncalls[last.gen] = 2
    /\ mods[last.mod].data = Some(LlvmModuleWrapper(NULL))
    /\ gens[last.gen].state = "live"

\* the second call, with functions, passed the null handle to LLVMAddFunction
C26_WitnessRegister ==
    /\ GenerateFromMirCalled /\ last.ub /\ last.handle = NULL /\ ncalls[last.gen] = 2

\* the first call returned a Module with the handle the generator was
\* constructed with, holding the two functions
C26_WitnessFirst ==
    /\ GenerateFromMirCalled /\ last.result = "Ok" /\ ncalls[last.gen] = 1
    /\ mods[last.mod].data = Some(LlvmModuleWrapper(1))
    /\ Len(native.modules[1].funcs) = 2

(***************************************************************************)
(* Locals defined after their use.                                         *)
(***************************************************************************)
\* the operands an instruction of any family names
Referenced(inst) ==
    CASE inst.op \in ArithmeticOps \cup ComparisonOps \cup {"And", "Or"} -> {inst.left, inst.right}
      [] inst.op = "Not" -> {inst.operand}
      [] inst.op \in {"Load", "Copy"} -> {inst.source}
      [] inst.op = "Store" -> {inst.dest, inst.source}
      [] inst.op = "Gep" -> {inst.base, inst.index}
      [] inst.op = "Call" -> {inst.args[i] : i \in 1..Len(inst.args)}
      [] inst.op = "Phi" -> {inst.incoming[i].val_op : i \in 1..Len(inst.incoming)}
      [] inst.op = "Ret" -> IF inst.value = None THEN {} ELSE {inst.value[1]}
      [] inst.op = "Br" -> {inst.condition}
      [] OTHER -> {}
ReferencedLocals ==
    UNION {{o.local.id : o \in {o \in Referenced(InstAt(p)) : o.kind = "Local"}} : p \in Positions}
\* the local ids some instruction of the function has as destination, and
\* those of its parameters
DefinedLocals ==
    {DestId(InstAt(p)) : p \in {p \in Positions : HasDest(InstAt(p))}}
    \cup {tf.mir_func.params[k].local.id : k \in 1..Len(tf.mir_func.params)}
AllLocalsDefined == ReferencedLocals \subseteq DefinedLocals

\* C27: the translation of a function in which every referenced local is a
\* parameter or the destination of some instruction of the function,
\* wherever that instruction sits, and whose Phi predecessor indices are
\* block indices of the function, never panics: in particular a Phi incoming
\* value that names a local defined in a block of higher index is resolved.
C27_DefinedAnywhereTranslates ==
    (AllLocalsDefined /\ PredecessorsDeclared) => tf.pc # "panic"

\* the Phi in block 1 of the loop function panicked: its incoming value
\* names local 2, which block 2 defines, and its predecessors 0 and 2 are
\* both in bb_map
C27_Witness ==
    /\ tf.mir_func = LoopFn /\ tf.pc = "panic" /\ Cursor = <<1, 0>>
    /\ AllLocalsDefined /\ PredecessorsDeclared
    /\ {0, 2} \subseteq DOMAIN tf.bb_map
    /\ 2 \notin DOMAIN tf.local_map

\* a function whose locals are all defined before their use was translated
\* to the end
C27_WitnessDefinedBefore ==
    /\ tf.mir_func = AddFn /\ tf.pc = "done" /\ AllLocalsDefined

(***************************************************************************)
(* Target machines.                                                        *)
(***************************************************************************)
\* the last call was emit_binary, emit_assembly or emit_object and it returned
TargetMachineCallReturned == last.op \in TargetMachineOps /\ last.result # "abort"

\* C28: when emit_binary, emit_assembly or emit_object returns, with Ok or
\* with an error, every target machine the call created has been disposed,
\* once: the call created at most one and disposed as many as it created.
C28_TargetMachineDisposed ==
    TargetMachineCallReturned =>
        /\ last.tm_created <= 1
        /\ last.tm_disposed = last.tm_created

\* emit_binary returned EmissionFailed after the native emission failed, with
\* the target machine it created not disposed
C28_Witness ==
    /\ last.op = "emit_binary" /\ last.result = "EmissionFailed"
    /\ last.tm_created = 1 /\ last.tm_disposed = 0
    /\ last.calls[Len(last.calls)] = "LLVMDisposeMessage"

\* emit_binary returned Io after the copy of the object file failed, with the
\* target machine not disposed
C28_WitnessCopy ==
    /\ last.op = "emit_binary" /\ last.result = "Io"
    /\ last.tm_created = 1 /\ last.tm_disposed = 0 /\ Len(last.written) = 1

\* emit_assembly or emit_object returned EmissionFailed after the native
\* emission failed, with the target machine disposed
C28_WitnessDisposed ==
    /\ last.op \in {"emit_assembly", "emit_object"} /\ last.result = "EmissionFailed"
    /\ last.tm_created = 1 /\ last.tm_disposed = 1

=============================================================================
